---- MODULE Spec2Model ----
(***************************************************************************)
(* The authentication back end of AURORA-INTEL (server.js, utils/email.js) *)
(* as a state machine.  Every request handler is cut at its awaits: one    *)
(* action per synchronous segment, so that handlers of different requests  *)
(* interleave exactly where the event loop lets them.  Text values         *)
(* (emails, names, passwords, codes) are sequences of one-character        *)
(* strings, so that toLowerCase, trim, length and the regular expressions  *)
(* are computed and not assumed.                                           *)
(***************************************************************************)
EXTENDS Integers, Sequences, FiniteSets, TLC

(***************************************************************************)
(* Bounds of the model.                                                    *)
(***************************************************************************)
\* requests that reach an await in one behaviour
MaxRequests == 4
\* requests suspended at an await at the same time
MaxInflight == 2
\* advances of the clock in one behaviour
MaxTicks == 2

(***************************************************************************)
(* Program constants.                                                      *)
(***************************************************************************)
\* 5 * 60 * 1000: validity of a code in ms
OtpTtl == 300000
\* the cleanup timer runs 2000 ms after the expiry
CleanupSlack == 2000
\* Math.floor(100000 + Math.random() * 900000)
OtpBase == 100000
OtpSpan == 900000
\* password.length < 6 is rejected
MinPasswordLength == 6
\* /^\d{6}$/
OtpLength == 6

(***************************************************************************)
(* Text.                                                                   *)
(***************************************************************************)
Upper == <<"A", "B", "C">>
Lower == <<"a", "b", "c">>
DigitChars == <<"0", "1", "2", "3", "4", "5", "6", "7", "8", "9">>
\* the characters \s and trim() take for white space: the space, the line
\* feed and the non-breaking space \u00A0
Whitespace == {" ", "\n", "nbsp"}

Range(s) == {s[i] : i \in 1..Len(s)}

LowerChar(c) ==
    IF \E i \in 1..Len(Upper) : Upper[i] = c
    THEN Lower[CHOOSE i \in 1..Len(Upper) : Upper[i] = c]
    ELSE c

\* String.prototype.toLowerCase
ToLowerCase(s) == [i \in 1..Len(s) |-> LowerChar(s[i])]

\* String.prototype.trim applied to a name: is anything left?
RECURSIVE TrimStart(_)
TrimStart(s) ==
    IF s # <<>> /\ Head(s) \in Whitespace THEN TrimStart(Tail(s)) ELSE s

RECURSIVE TrimEnd(_)
TrimEnd(s) ==
    IF s # <<>> /\ s[Len(s)] \in Whitespace
    THEN TrimEnd(SubSeq(s, 1, Len(s) - 1))
    ELSE s

Trim(s) == TrimEnd(TrimStart(s))

\* /^[^\s@]+@[^\s@]+\.[^\s@]+$/.test(s)
PlainRun(s, from, to) ==
    /\ from <= to
    /\ \A k \in from..to : s[k] \notin (Whitespace \cup {"@"})

TestEmail(s) ==
    \E i \in 1..Len(s) : \E j \in 1..Len(s) :
        /\ s[i] = "@"
        /\ s[j] = "."
        /\ PlainRun(s, 1, i - 1)
        /\ PlainRun(s, i + 1, j - 1)
        /\ PlainRun(s, j + 1, Len(s))

\* /^\d{6}$/.test(s)
TestOtp(s) ==
    /\ Len(s) = OtpLength
    /\ \A k \in 1..Len(s) : s[k] \in Range(DigitChars)

\* Number.prototype.toString of a non-negative integer
RECURSIVE NumberToString(_)
NumberToString(n) ==
    IF n < 10
    THEN <<DigitChars[n + 1]>>
    ELSE Append(NumberToString(n \div 10), DigitChars[(n % 10) + 1])

\* Math.floor(100000 + Math.random() * 900000).toString(), where draw is
\* Math.floor(Math.random() * 900000), a number of 0..899999
GenerateOtp(draw) == NumberToString(OtpBase + draw)

(***************************************************************************)
(* Inputs of the requests.                                                 *)
(***************************************************************************)
EmailPlain == <<"a", "@", "b", ".", "c">>
EmailCased == <<"A", "@", "b", ".", "c">>
EmailNoDot == <<"a", "@", "b">>
EmailInputs == {EmailPlain, EmailCased, EmailNoDot}

\* values of Math.floor(Math.random() * 900000) the model draws
RandomDraws == {0, OtpSpan - 1}
OtpInputs == {GenerateOtp(d) : d \in RandomDraws} \cup {<<"1", "2", "3", "4", "5">>}

(***************************************************************************)
(* State.                                                                  *)
(***************************************************************************)
VARIABLES
    now,          \* Date.now(), ms
    ticks,        \* advances of the clock so far
    otpStore,     \* const otpStore = new Map(): normalized email -> {otp, expires}
    timers,       \* setTimeout callbacks of request-otp not yet run
    users,        \* the User collection, in insertion order
    reqs,         \* requests suspended at an await: id -> position and locals
    nextId,       \* id of the next request received
    resp,         \* the HTTP response this step sent, if it sent one
    issued,       \* history: number of otpStore.set calls so far
    passes,       \* history: issue -> code checks of verify-otp it passed
    verified,     \* history: emails whose code passed the check of verify-otp
    remoteLogoutTokens, \* const remoteLogoutTokens = new Map(): token -> {userId, expires}
    logoutTimers, \* setTimeout callbacks of login not yet run
    sessions,     \* ids of the Users a login has signed a JWT for
    hashOnSave,   \* does the User model hash a modified password when it saves?
    experiences,  \* the Experience collection: documents with their userId
    resets,       \* history: reset token -> reset-password requests answered 200
    resetMails,   \* history: the reset mails handed to sendEmail
    conversations, \* the Conversation collection
    turns         \* POST /api/conversations/:id/messages requests at an await

vars == <<now, ticks, otpStore, timers, users, reqs, nextId, resp,
          issued, passes, verified, remoteLogoutTokens, logoutTimers, sessions,
          hashOnSave, experiences, resets, resetMails, conversations, turns>>

NoText == <<>>

Issues == 1..MaxRequests

(***************************************************************************)
(* The stores.                                                             *)
(***************************************************************************)
\* A Map is the set of its entries, each carrying its key.
\* Map.prototype.has
MapHas(m, k) == \E x \in m : x.key = k

\* Map.prototype.get of a key the map has
MapGet(m, k) == CHOOSE x \in m : x.key = k

\* Map.prototype.set
MapSet(m, v) == {x \in m : x.key # v.key} \cup {v}

\* Map.prototype.delete
MapDelete(m, k) == {x \in m : x.key # k}

\* mutant of FindOneByEmail: the query never matches a document
FindOneByEmail_Misses(us, email) == FALSE

\* User.findOne({ email }): is there a document?
FindOneByEmail(us, email) == \E i \in 1..Len(us) : us[i].email = email

UsersWithEmail(us, email) == {i \in 1..Len(us) : us[i].email = email}

\* bcrypt.hash(password, 10), kept symbolic: the hash names its plain text
BcryptHash(password) == <<"bcrypt", password>>

\* a field of a document that is not set
Unset == <<>>

\* what save() stores for a password the handler has set: its hash when the
\* User model has a pre-save hook that hashes a modified password (the
\* reset-password handler relies on one), else the value as set
PreSaveHook(hook, password) == IF hook THEN BcryptHash(password) ELSE password

\* new User({ name: name.trim(), email, password: hashedPassword, photo })
\* followed by save(): the document is inserted. The reset token, its
\* expiry and the admin flag are not set. via, madeFor and check are
\* history: the otpStore.set whose code the request carried, the email the
\* document was made for and what the code check of the request saw; plain
\* is history too: the password as the signup or reset that last set it
\* received it (Unset once another route has set the password).
InsertUser(us, name, email, password, issue, check, plain) ==
    Append(us, [id |-> Len(us) + 1,
                name |-> Trim(name),
                email |-> email,
                password |-> password,
                photo |-> "/uploads/default-profile-placeholder.png",
                passwordResetToken |-> Unset,
                passwordResetExpires |-> 0,
                isAdmin |-> FALSE,
                via |-> issue,
                madeFor |-> email,
                check |-> check,
                plain |-> plain])

\* User.findById(id): is there a document?
FindById(us, id) == id \in 1..Len(us)

\* the document findOne({ email }) answers with: the first in the collection
FirstByEmail(us, email) ==
    CHOOSE i \in 1..Len(us) :
        /\ us[i].email = email
        /\ \A j \in 1..Len(us) : us[j].email = email => i <= j

(***************************************************************************)
(* Requests and responses.                                                 *)
(***************************************************************************)
\* a suspended handler: where it waits and its local variables; issue and
\* sawUser are history: the otpStore.set the request made or consumed, and
\* whether a User had its email when its findOne answered
\* what a handler saw when it answered (history, no part of the HTTP response)
Seen(hadEntry, late, same, userFound) ==
    [hadEntry |-> hadEntry, late |-> late, same |-> same, userFound |-> userFound]

NothingSeen == Seen(FALSE, FALSE, FALSE, FALSE)

\* the updates object of PUT /api/users/update/:id: a field that is not set
\* is not updated
Updates(name, email, password) ==
    [name |-> name, email |-> email, password |-> password]

NoUpdates == Updates(Unset, Unset, Unset)

Request(id, route, pc, email, name, password, otp, issue) ==
    [key |-> id, route |-> route, pc |-> pc, email |-> email, name |-> name,
     password |-> password, otp |-> otp, issue |-> issue, sawUser |-> FALSE,
     check |-> NothingSeen, uid |-> 0, token |-> Unset, at |-> 0, born |-> 0,
     raw |-> Unset, updates |-> NoUpdates]

\* res.status(status).json(...): msg names the message or error text of the
\* body, details the error.message a 500 of request-otp adds; code is
\* history: the code of the request a verify-otp answers after its check;
\* body is the list a GET of the conversation routes answers with
Response(route, status, msg, details, email, issue, seen) ==
    [route |-> route, status |-> status, msg |-> msg,
     details |-> details, email |-> email, issue |-> issue, seen |-> seen,
     code |-> NoText, body |-> <<>>]

NoResponse == Response("none", 0, "none", "none", NoText, 0, NothingSeen)

\* room for one more suspended handler
CanSuspend ==
    /\ nextId <= MaxRequests
    /\ Cardinality(reqs) < MaxInflight

\* The response of a step is on its way to the client: the next step hands
\* it over, and the event loop goes on from there.
Quiet == resp = NoResponse

\* the handler of request r.key stops at an await / has answered
Suspend(r) == reqs' = MapSet(reqs, r)
Finish(r) == reqs' = MapDelete(reqs, r.key)

At(r, route, pc) ==
    /\ Quiet
    /\ r \in reqs
    /\ r.route = route
    /\ r.pc = pc

histVars == <<issued, passes, verified>>
loginVars == <<remoteLogoutTokens, logoutTimers, sessions>>
resetHist == <<resets, resetMails>>
chatVars == <<conversations, turns>>
restVars == <<hashOnSave, experiences, resetHist, chatVars>>
clockVars == <<now, ticks>>

Init ==
    /\ now = 0
    /\ ticks = 0
    /\ otpStore = {}
    /\ timers = {}
    /\ users = <<>>
    /\ reqs = {}
    /\ nextId = 1
    /\ resp = NoResponse
    /\ issued = 0
    /\ passes = [i \in Issues |-> 0]
    /\ verified = {}
    /\ remoteLogoutTokens = {}
    /\ logoutTimers = {}
    /\ sessions = {}
    /\ hashOnSave \in BOOLEAN
    /\ experiences = {}
    /\ resets = [t \in 1..MaxRequests |-> 0]
    /\ resetMails = {}
    /\ conversations = {}
    /\ turns = {}

(***************************************************************************)
(* POST /api/auth/request-otp                                              *)
(***************************************************************************)
\* !email || !regex.test(email) is answered 400
ValidOtpRequest(email) == email # NoText /\ TestEmail(email)

\* const otpExpires = Date.now() + 5 * 60 * 1000
OtpExpiry(t) == t + OtpTtl

\* setTimeout(..., otpExpires - Date.now() + 2000), armed at t
CleanupDue(expires, t) == t + (expires - t + CleanupSlack)

\* the value of otpStore.set(normalizedEmail, { otp, expires })
OtpEntry(email, otp, expires, issue) ==
    [key |-> email, otp |-> otp, expires |-> expires, issue |-> issue]

\* the callback handed to setTimeout, with the variables it closes over
CleanupTimer(email, otp, due, issue) ==
    [email |-> email, otp |-> otp, due |-> due, issue |-> issue]

\* utils/email.js sendEmail: how the promise it returns can settle. It is
\* rejected when no transporter was configured and when sendMail fails.
SendEmailOutcomes == {"sent", "rejected"}

\* the request arrives: body check, then await User.findOne
RequestOtp(email) ==
    /\ Quiet
    /\ IF ~ValidOtpRequest(email)
       THEN /\ resp' = Response("request-otp", 400, "valid_email_required",
                                "none", NoText, 0, NothingSeen)
            /\ UNCHANGED <<reqs, nextId>>
       ELSE /\ CanSuspend
            /\ nextId' = nextId + 1
            /\ Suspend(Request(nextId, "request-otp", "findOne", ToLowerCase(email),
                               NoText, NoText, NoText, 0))
            /\ resp' = NoResponse
    /\ UNCHANGED <<clockVars, otpStore, timers, users, histVars, loginVars>>
    /\ UNCHANGED restVars

\* mutant of StoreAfterRequest: the entry is stored before the User is looked up
StoreAfterRequest_BeforeLookup(store, us, entry) == MapSet(store, entry)

\* what the handler leaves in otpStore once findOne has answered: nothing new
\* for a registered email, else otpStore.set(normalizedEmail, ...)
StoreAfterRequest(store, us, entry) ==
    IF FindOneByEmail(us, entry.key) THEN store ELSE MapSet(store, entry)

\* findOne has answered: 409, or generate, store, arm the timer, call sendEmail
RequestOtpIssue(r, draw) ==
    /\ At(r, "request-otp", "findOne")
    /\ IF FindOneByEmail(users, r.email)
       THEN /\ resp' = Response("request-otp", 409, "email_already_registered",
                                "none", r.email, 0,
                                Seen(FALSE, FALSE, FALSE, UsersWithEmail(users, r.email) # {}))
            /\ Finish(r)
            /\ otpStore' = StoreAfterRequest(otpStore, users,
                                OtpEntry(r.email, GenerateOtp(draw), OtpExpiry(now),
                                         issued + 1))
            /\ UNCHANGED <<timers, issued>>
       ELSE LET otp == GenerateOtp(draw)
                expires == OtpExpiry(now)
                issue == issued + 1
            IN  /\ otpStore' = StoreAfterRequest(otpStore, users,
                                    OtpEntry(r.email, otp, expires, issue))
                /\ timers' = timers \cup
                       {CleanupTimer(r.email, otp, CleanupDue(expires, now), issue)}
                /\ issued' = issue
                /\ Suspend([r EXCEPT !.pc = "sendEmail", !.otp = otp, !.issue = issue])
                /\ resp' = NoResponse
    /\ UNCHANGED <<clockVars, users, nextId, passes, verified, loginVars>>
    /\ UNCHANGED restVars

\* await sendEmail has settled: 200, or the catch block's 500
RequestOtpSent(r, outcome) ==
    /\ At(r, "request-otp", "sendEmail")
    /\ IF outcome = "sent"
       THEN resp' = Response("request-otp", 200, "otp_sent", "none", r.email,
                             r.issue, NothingSeen)
       ELSE resp' = Response("request-otp", 500, "backend_crashed", outcome,
                             r.email, r.issue, NothingSeen)
    /\ Finish(r)
    /\ UNCHANGED <<clockVars, otpStore, timers, users, nextId, histVars, loginVars>>
    /\ UNCHANGED restVars

\* the setTimeout callback: delete the entry if it still holds this code
OtpCleanup(t) ==
    /\ Quiet
    /\ t \in timers
    /\ now >= t.due
    /\ timers' = timers \ {t}
    /\ otpStore' = IF MapHas(otpStore, t.email) /\ MapGet(otpStore, t.email).otp = t.otp
                   THEN MapDelete(otpStore, t.email)
                   ELSE otpStore
    /\ resp' = NoResponse
    /\ UNCHANGED <<clockVars, users, reqs, nextId, histVars, loginVars>>
    /\ UNCHANGED restVars

\* time passes
Tick(d) ==
    /\ Quiet
    /\ ticks < MaxTicks
    /\ ticks' = ticks + 1
    /\ now' = now + d
    /\ resp' = NoResponse
    /\ UNCHANGED <<otpStore, timers, users, reqs, nextId, histVars, loginVars>>
    /\ UNCHANGED restVars

(***************************************************************************)
(* POST /api/auth/verify-otp                                               *)
(***************************************************************************)
\* mutant of ValidVerifyRequest: the code is not tested against /^\d{6}$/
ValidVerifyRequest_AnyCode(name, email, password, otp) ==
    /\ Trim(name) # NoText
    /\ email # NoText
    /\ password # NoText
    /\ otp # NoText
    /\ ~(Len(password) < MinPasswordLength)
    /\ TestEmail(email)

\* the input validation: each failing test is answered 400
ValidVerifyRequest(name, email, password, otp) ==
    /\ Trim(name) # NoText
    /\ email # NoText
    /\ password # NoText
    /\ otp # NoText
    /\ ~(Len(password) < MinPasswordLength)
    /\ TestEmail(email)
    /\ TestOtp(otp)

\* mutant of OtpMissingOrExpired: the expiry is not looked at
OtpMissingOrExpired_IgnoresExpiry(store, email, t) == ~MapHas(store, email)

\* !storedOtpData || Date.now() > storedOtpData.expires
OtpMissingOrExpired(store, email, t) ==
    \/ ~MapHas(store, email)
    \/ t > MapGet(store, email).expires

\* mutant of OtpMismatch: every code is taken for the stored one
OtpMismatch_NeverDiffers(entry, otp) == FALSE

\* storedOtpData.otp !== otp
OtpMismatch(entry, otp) == entry.otp # otp

\* steps 1 to 3 of the handler, which run without an await between them
VerifyVerdict(store, email, otp, t) ==
    IF OtpMissingOrExpired(store, email, t) THEN "expired"
    ELSE IF OtpMismatch(MapGet(store, email), otp) THEN "mismatch"
    ELSE "match"

\* mutant of StoreAfterVerify: a matched entry is kept
StoreAfterVerify_KeepsMatched(store, email, otp, t) ==
    IF VerifyVerdict(store, email, otp, t) = "expired"
    THEN MapDelete(store, email)
    ELSE store

\* mutant of StoreAfterVerify: the entry is deleted on a mismatch as well
StoreAfterVerify_DropsOnMismatch(store, email, otp, t) == MapDelete(store, email)

\* what steps 1 to 3 leave in otpStore: the entry is deleted when it is
\* missing or expired and when the code matches, and kept on a mismatch
StoreAfterVerify(store, email, otp, t) ==
    IF VerifyVerdict(store, email, otp, t) = "mismatch"
    THEN store
    ELSE MapDelete(store, email)

\* the request arrives: validation, then steps 1 to 3, then await User.findOne
VerifyOtp(name, email, password, otp) ==
    /\ Quiet
    /\ IF ~ValidVerifyRequest(name, email, password, otp)
       THEN /\ resp' = Response("verify-otp", 400, "valid_fields_required",
                                "none", NoText, 0, NothingSeen)
            /\ UNCHANGED <<otpStore, reqs, nextId, passes, verified>>
       ELSE LET e == ToLowerCase(email)
                had == MapHas(otpStore, e)
                late == had /\ now > MapGet(otpStore, e).expires
                same == had /\ MapGet(otpStore, e).otp = otp
                issue == IF had THEN MapGet(otpStore, e).issue ELSE 0
                verdict == VerifyVerdict(otpStore, e, otp, now)
            IN  /\ otpStore' = StoreAfterVerify(otpStore, e, otp, now)
                /\ CASE verdict = "expired" ->
                          /\ resp' = [Response("verify-otp", 400,
                                               "otp_invalid_or_expired", "none", e, issue,
                                               Seen(had, late, same, FALSE))
                                          EXCEPT !.code = otp]
                          /\ UNCHANGED <<reqs, nextId, passes, verified>>
                     [] verdict = "mismatch" ->
                          /\ resp' = [Response("verify-otp", 400, "invalid_otp",
                                               "none", e, issue,
                                               Seen(had, late, same, FALSE))
                                          EXCEPT !.code = otp]
                          /\ UNCHANGED <<reqs, nextId, passes, verified>>
                     [] verdict = "match" ->
                          /\ CanSuspend
                          /\ nextId' = nextId + 1
                          /\ Suspend([Request(nextId, "verify-otp", "findOne", e, name,
                                              password, otp, issue)
                                          EXCEPT !.check = Seen(had, late, same, FALSE)])
                          /\ passes' = [passes EXCEPT ![issue] = @ + 1]
                          /\ verified' = verified \cup {e}
                          /\ resp' = NoResponse
    /\ UNCHANGED <<clockVars, timers, users, issued, loginVars>>
    /\ UNCHANGED restVars

\* step 4, findOne has answered: 409 when the email was registered meanwhile.
\* Otherwise step 5: await bcrypt.hash, which touches nothing shared and is
\* folded into this step, then build the document and await save
VerifyOtpRecheck(r) ==
    /\ At(r, "verify-otp", "findOne")
    /\ IF FindOneByEmail(users, r.email)
       THEN /\ resp' = Response("verify-otp", 409, "registered_meanwhile", "none",
                                r.email, r.issue,
                                Seen(TRUE, FALSE, TRUE, UsersWithEmail(users, r.email) # {}))
            /\ Finish(r)
       ELSE /\ Suspend([r EXCEPT !.pc = "save",
                                 !.password = BcryptHash(r.password),
                                 !.raw = r.password,
                                 !.sawUser = UsersWithEmail(users, r.email) # {}])
            /\ resp' = NoResponse
    /\ UNCHANGED <<clockVars, otpStore, timers, users, nextId, histVars, loginVars>>
    /\ UNCHANGED restVars

\* save has answered: 201 with the new user
VerifyOtpSaved(r) ==
    /\ At(r, "verify-otp", "save")
    /\ users' = InsertUser(users, r.name, r.email,
                            PreSaveHook(hashOnSave, r.password), r.issue, r.check,
                            r.raw)
    /\ resp' = Response("verify-otp", 201, "account_created", "none", r.email,
                        r.issue, Seen(TRUE, FALSE, TRUE, r.sawUser))
    /\ Finish(r)
    /\ UNCHANGED <<clockVars, otpStore, timers, nextId, histVars, loginVars>>
    /\ UNCHANGED restVars

\* res.json has written the response: the client has it
Deliver ==
    /\ ~Quiet
    /\ resp' = NoResponse
    /\ UNCHANGED <<clockVars, otpStore, timers, users, reqs, nextId, histVars, loginVars>>
    /\ UNCHANGED restVars

(***************************************************************************)
(* The signup flow.                                                        *)
(***************************************************************************)
Next ==
    \/ \E email \in EmailInputs : RequestOtp(email)
    \/ \E r \in reqs, draw \in RandomDraws : RequestOtpIssue(r, draw)
    \/ \E r \in reqs, outcome \in SendEmailOutcomes : RequestOtpSent(r, outcome)
    \/ \E name \in {<<"A", "l">>, <<" ">>}, email \in EmailInputs,
          password \in {<<"s", "e", "c", "r", "e", "t">>, <<"s", "h", "o", "r", "t">>},
          otp \in OtpInputs : VerifyOtp(name, email, password, otp)
    \/ \E r \in reqs : VerifyOtpRecheck(r)
    \/ \E r \in reqs : VerifyOtpSaved(r)
    \/ \E t \in timers : OtpCleanup(t)
    \/ \E d \in {1, OtpTtl} : Tick(d)
    \/ Deliver

Spec == Init /\ [][Next]_vars

(***************************************************************************)
(* Password reset, login and the update of a User.                         *)
(***************************************************************************)
\* Date.now() + 3600000 of forgot-password and of login
ResetTtl == 3600000
LogoutTtl == 3600000

\* setTimeout(..., 3602000) of login
LogoutCleanupDelay == 3602000

EmailOther == <<"b", "@", "b", ".", "c">>

\* mutant of Sha256: the token is stored and looked up as it is
Sha256_Identity(token) == token

\* crypto.createHash('sha256').update(token).digest('hex'), kept symbolic
Sha256(token) == <<"sha256", token>>

\* a token in hex, named by a number
HexToken(n) == <<"hex", n>>

\* crypto.randomBytes(32).toString('hex'): a value no other call returns,
\* named by the request that drew it
RandomToken(r) == HexToken(r.key)

\* the tokens a client can send
TokenInputs == {HexToken(n) : n \in 1..MaxRequests}

\* const tokenExpiry = Date.now() + 3600000
TokenExpiry(t) == t + ResetTtl

\* bcrypt.compare(password, hash)
BcryptCompare(password, hash) == hash = BcryptHash(password)

\* authMiddleware: the request carries a JWT that login signed for User uid,
\* and req.user is that document
AuthMiddleware(sess, us, uid) == uid \in sess /\ FindById(us, uid)

\* forgot-password arrives: body check, then await User.findOne
ForgotPassword(email) ==
    /\ Quiet
    /\ IF email = NoText
       THEN /\ resp' = Response("forgot-password", 400, "email_required", "none",
                                NoText, 0, NothingSeen)
            /\ UNCHANGED <<reqs, nextId>>
       ELSE /\ CanSuspend
            /\ nextId' = nextId + 1
            /\ Suspend(Request(nextId, "forgot-password", "findOne",
                               Trim(ToLowerCase(email)), NoText, NoText, NoText, 0))
            /\ resp' = NoResponse
    /\ UNCHANGED <<clockVars, otpStore, timers, users, histVars, loginVars>>
    /\ UNCHANGED restVars

\* findOne has answered: the generic 200 when there is no User, else the
\* token and its expiry are set on the document and save is awaited
ForgotPasswordFound(r) ==
    /\ At(r, "forgot-password", "findOne")
    /\ IF ~FindOneByEmail(users, r.email)
       THEN /\ resp' = Response("forgot-password", 200, "reset_link_sent_if_exists",
                                "none", r.email, 0, NothingSeen)
            /\ Finish(r)
       ELSE /\ Suspend([r EXCEPT !.pc = "save",
                                 !.uid = FirstByEmail(users, r.email),
                                 !.token = Sha256(RandomToken(r)),
                                 !.at = TokenExpiry(now),
                                 !.born = now])
            /\ resp' = NoResponse
    /\ UNCHANGED <<clockVars, otpStore, timers, users, nextId, histVars, loginVars>>
    /\ UNCHANGED restVars

\* the mail of forgot-password: the link carries the token as drawn; born is
\* history: Date.now() when the token was drawn
ResetMail(r) == [token |-> RandomToken(r), uid |-> r.uid, to |-> r.email, born |-> r.born]

\* mutant of ForgotPasswordSaved: a token the User already holds is kept
ForgotPasswordSaved_KeepsFirst(r, outcome) ==
    /\ At(r, "forgot-password", "save")
    /\ IF outcome = "saved"
       THEN /\ users' = IF users[r.uid].passwordResetToken = Unset
                        THEN [users EXCEPT ![r.uid].passwordResetToken = r.token,
                                           ![r.uid].passwordResetExpires = r.at]
                        ELSE users
            /\ resetMails' = resetMails \cup {ResetMail(r)}
            /\ resp' = Response("forgot-password", 200, "reset_link_sent_if_exists",
                                "none", r.email, 0, Seen(FALSE, FALSE, FALSE, TRUE))
       ELSE /\ UNCHANGED <<users, resetMails>>
            /\ resp' = Response("forgot-password", 500, "internal_server_error",
                                "none", r.email, 0, Seen(FALSE, FALSE, FALSE, TRUE))
    /\ Finish(r)
    /\ UNCHANGED <<clockVars, otpStore, timers, nextId, histVars, loginVars>>
    /\ UNCHANGED <<hashOnSave, experiences, resets, chatVars>>

\* user.save() has settled. Saved: the two modified fields are written,
\* sendEmail is called without an await (its failure is only logged) and
\* the generic 200 is sent. Failed: the catch block hands a new Error to
\* the global error handler, which answers 500
ForgotPasswordSaved(r, outcome) ==
    /\ At(r, "forgot-password", "save")
    /\ IF outcome = "saved"
       THEN /\ users' = [users EXCEPT ![r.uid].passwordResetToken = r.token,
                                      ![r.uid].passwordResetExpires = r.at]
            /\ resetMails' = resetMails \cup {ResetMail(r)}
            /\ resp' = Response("forgot-password", 200, "reset_link_sent_if_exists",
                                "none", r.email, 0, Seen(FALSE, FALSE, FALSE, TRUE))
       ELSE /\ UNCHANGED <<users, resetMails>>
            /\ resp' = Response("forgot-password", 500, "internal_server_error",
                                "none", r.email, 0, Seen(FALSE, FALSE, FALSE, TRUE))
    /\ Finish(r)
    /\ UNCHANGED <<clockVars, otpStore, timers, nextId, histVars, loginVars>>
    /\ UNCHANGED <<hashOnSave, experiences, resets, chatVars>>

\* reset-password arrives: validation, the token is hashed, await User.findOne
ResetPassword(token, password, confirmPassword) ==
    /\ Quiet
    /\ IF password = NoText \/ confirmPassword = NoText
       THEN /\ resp' = Response("reset-password", 400, "password_and_confirmation_required",
                                "none", NoText, 0, NothingSeen)
            /\ UNCHANGED <<reqs, nextId>>
       ELSE IF Len(password) < MinPasswordLength
       THEN /\ resp' = Response("reset-password", 400, "password_too_short",
                                "none", NoText, 0, NothingSeen)
            /\ UNCHANGED <<reqs, nextId>>
       ELSE IF password # confirmPassword
       THEN /\ resp' = Response("reset-password", 400, "passwords_do_not_match",
                                "none", NoText, 0, NothingSeen)
            /\ UNCHANGED <<reqs, nextId>>
       ELSE /\ CanSuspend
            /\ nextId' = nextId + 1
            /\ Suspend([Request(nextId, "reset-password", "findOne", NoText, NoText,
                                password, NoText, 0)
                            EXCEPT !.token = Sha256(token), !.at = now, !.raw = token])
            /\ resp' = NoResponse
    /\ UNCHANGED <<clockVars, otpStore, timers, users, histVars, loginVars>>
    /\ UNCHANGED restVars

\* the frontend validations of the ResetPassword view
FrontendValidations(token, password, confirmPassword) ==
    /\ token # Unset
    /\ password # NoText /\ confirmPassword # NoText
    /\ Len(password) >= MinPasswordLength
    /\ password = confirmPassword

\* handleSubmit of the ResetPassword view: when a validation fails only
\* feedback is shown; else axios.post(.../api/auth/reset-password/${token},
\* { password }): the body has no confirmPassword
HandleSubmit(token, password, confirmPassword) ==
    IF FrontendValidations(token, password, confirmPassword)
    THEN ResetPassword(token, password, NoText)
    ELSE UNCHANGED vars

\* the documents findOne({ passwordResetToken, passwordResetExpires: { $gt } })
\* matches
UsersWithToken(us, hashed, t) ==
    {i \in 1..Len(us) :
        us[i].passwordResetToken = hashed /\ us[i].passwordResetExpires > t}

\* findOne has answered: 400 when no document matches, else the password is
\* set, the token and its expiry are cleared and save is awaited
\* (issue of the 400 is history: the number of the token that was refused)
ResetPasswordFound(r) ==
    /\ At(r, "reset-password", "findOne")
    /\ LET found == UsersWithToken(users, r.token, r.at)
       IN  IF found = {}
           THEN /\ resp' = Response("reset-password", 400, "token_invalid_or_expired",
                                    "none", NoText, r.raw[2], NothingSeen)
                /\ Finish(r)
           ELSE /\ Suspend([r EXCEPT !.pc = "save",
                                     !.uid = CHOOSE i \in found :
                                                 \A j \in found : i <= j])
                /\ resp' = NoResponse
    /\ UNCHANGED <<clockVars, otpStore, timers, users, nextId, histVars, loginVars>>
    /\ UNCHANGED restVars

\* user.save() writes the three modified fields: 200
ResetPasswordSaved(r) ==
    /\ At(r, "reset-password", "save")
    /\ users' = [users EXCEPT ![r.uid].password = PreSaveHook(hashOnSave, r.password),
                              ![r.uid].plain = r.password,
                              ![r.uid].passwordResetToken = Unset,
                              ![r.uid].passwordResetExpires = 0]
    /\ resets' = [resets EXCEPT ![r.raw[2]] = @ + 1]
    /\ resp' = Response("reset-password", 200, "password_reset", "none",
                        users[r.uid].email, 0, Seen(FALSE, FALSE, FALSE, TRUE))
    /\ Finish(r)
    /\ UNCHANGED <<clockVars, otpStore, timers, nextId, histVars, loginVars>>
    /\ UNCHANGED <<hashOnSave, experiences, resetMails, chatVars>>

\* login arrives: body check, then await User.findOne
Login(email, password) ==
    /\ Quiet
    /\ IF email = NoText \/ password = NoText
       THEN /\ resp' = Response("login", 400, "email_and_password_required", "none",
                                NoText, 0, NothingSeen)
            /\ UNCHANGED <<reqs, nextId>>
       ELSE /\ CanSuspend
            /\ nextId' = nextId + 1
            /\ Suspend(Request(nextId, "login", "findOne", ToLowerCase(email),
                               NoText, password, NoText, 0))
            /\ resp' = NoResponse
    /\ UNCHANGED <<clockVars, otpStore, timers, users, histVars, loginVars>>
    /\ UNCHANGED restVars

\* findOne has answered: 401 when there is no User; await bcrypt.compare,
\* which touches nothing shared and is folded into this step: 401 on a
\* mismatch; else the JWT is signed, the remote logout token is stored, its
\* timer armed, sendEmail called without an await: 200
LoginFound(r) ==
    /\ At(r, "login", "findOne")
    /\ IF ~FindOneByEmail(users, r.email)
       THEN /\ resp' = Response("login", 401, "invalid_credentials", "none",
                                r.email, 0, NothingSeen)
            /\ UNCHANGED loginVars
       ELSE LET uid == FirstByEmail(users, r.email)
            IN  IF ~BcryptCompare(r.password, users[uid].password)
                THEN /\ resp' = Response("login", 401, "invalid_credentials", "none",
                                         r.email, 0, Seen(FALSE, FALSE, FALSE, TRUE))
                     /\ UNCHANGED loginVars
                ELSE /\ sessions' = sessions \cup {uid}
                     /\ remoteLogoutTokens' =
                            MapSet(remoteLogoutTokens,
                                   [key |-> RandomToken(r), userId |-> uid,
                                    expires |-> now + LogoutTtl])
                     /\ logoutTimers' = logoutTimers \cup
                            {[token |-> RandomToken(r), due |-> now + LogoutCleanupDelay]}
                     /\ resp' = Response("login", 200, "logged_in", "none",
                                         r.email, 0, Seen(FALSE, FALSE, FALSE, TRUE))
    /\ Finish(r)
    /\ UNCHANGED <<clockVars, otpStore, timers, users, nextId, histVars>>
    /\ UNCHANGED restVars

\* mutant of LogoutCleanup: the callback runs and deletes nothing
LogoutCleanup_KeepsToken(t) ==
    /\ Quiet
    /\ t \in logoutTimers
    /\ now >= t.due
    /\ logoutTimers' = logoutTimers \ {t}
    /\ resp' = NoResponse
    /\ UNCHANGED <<clockVars, otpStore, timers, users, reqs, nextId, histVars, sessions>>
    /\ UNCHANGED remoteLogoutTokens
    /\ UNCHANGED restVars

\* the setTimeout callback of login: remoteLogoutTokens.delete(token)
LogoutCleanup(t) ==
    /\ Quiet
    /\ t \in logoutTimers
    /\ now >= t.due
    /\ logoutTimers' = logoutTimers \ {t}
    /\ remoteLogoutTokens' = MapDelete(remoteLogoutTokens, t.token)
    /\ resp' = NoResponse
    /\ UNCHANGED <<clockVars, otpStore, timers, users, reqs, nextId, histVars, sessions>>
    /\ UNCHANGED restVars

\* the updates object the handler builds from the body
UpdatesOf(name, email, password) ==
    Updates(IF Trim(name) # NoText THEN Trim(name) ELSE Unset,
            IF email # NoText /\ TestEmail(email) THEN ToLowerCase(email) ELSE Unset,
            IF password # NoText /\ Len(password) >= MinPasswordLength
            THEN BcryptHash(password) ELSE Unset)

\* findByIdAndUpdate(id, { $set: updates }): what it leaves in the collection
ApplyUpdates(us, id, updates) ==
    IF ~FindById(us, id) THEN us
    ELSE [us EXCEPT
            ![id].name = IF updates.name # Unset THEN updates.name ELSE @,
            ![id].email = IF updates.email # Unset THEN updates.email ELSE @,
            ![id].password = IF updates.password # Unset THEN updates.password ELSE @,
            ![id].plain = IF updates.password # Unset THEN Unset ELSE @]

\* PUT /api/users/update/:id arrives with the JWT of User uid: the
\* authorization, the updates object (await bcrypt.hash folded in), then
\* await findById when the email is to change, else await findByIdAndUpdate.
\* No User is an admin (InsertUser), so isAdmin of the body is never applied.
UpdateUser(uid, target, name, email, password) ==
    /\ Quiet
    /\ IF ~AuthMiddleware(sessions, users, uid)
       THEN /\ resp' = Response("update-user", 401, "not_authorized", "none",
                                NoText, 0, NothingSeen)
            /\ UNCHANGED <<reqs, nextId>>
       ELSE IF target # uid /\ ~users[uid].isAdmin
       THEN /\ resp' = Response("update-user", 403, "forbidden", "none",
                                NoText, 0, NothingSeen)
            /\ UNCHANGED <<reqs, nextId>>
       ELSE IF password # NoText /\ Len(password) < MinPasswordLength
       THEN /\ resp' = Response("update-user", 400, "password_too_short", "none",
                                NoText, 0, NothingSeen)
            /\ UNCHANGED <<reqs, nextId>>
       ELSE IF UpdatesOf(name, email, password) = NoUpdates
       THEN /\ resp' = Response("update-user", 400, "no_valid_update_fields", "none",
                                NoText, 0, NothingSeen)
            /\ UNCHANGED <<reqs, nextId>>
       ELSE LET updates == UpdatesOf(name, email, password)
            IN  /\ CanSuspend
                /\ nextId' = nextId + 1
                /\ Suspend([Request(nextId, "update-user",
                                    IF updates.email # Unset THEN "findById" ELSE "update",
                                    NoText, NoText, NoText, NoText, 0)
                                EXCEPT !.uid = target, !.updates = updates])
                /\ resp' = NoResponse
    /\ UNCHANGED <<clockVars, otpStore, timers, users, histVars, loginVars>>
    /\ UNCHANGED restVars

\* findById has answered: 404; an unchanged email is dropped from the
\* updates (200 when nothing else is left); a changed one is looked up
UpdateUserLoaded(r) ==
    /\ At(r, "update-user", "findById")
    /\ IF ~FindById(users, r.uid)
       THEN /\ resp' = Response("update-user", 404, "user_to_update_not_found", "none",
                                NoText, 0, NothingSeen)
            /\ Finish(r)
       ELSE IF r.updates.email # users[r.uid].email
       THEN /\ Suspend([r EXCEPT !.pc = "findOne"])
            /\ resp' = NoResponse
       ELSE IF [r.updates EXCEPT !.email = Unset] = NoUpdates
       THEN /\ resp' = Response("update-user", 200, "no_actual_changes", "none",
                                users[r.uid].email, 0, NothingSeen)
            /\ Finish(r)
       ELSE /\ Suspend([r EXCEPT !.pc = "update", !.updates.email = Unset])
            /\ resp' = NoResponse
    /\ UNCHANGED <<clockVars, otpStore, timers, users, nextId, histVars, loginVars>>
    /\ UNCHANGED restVars

\* findOne({ email: updates.email }) has answered: 409 when a User has it
UpdateUserChecked(r) ==
    /\ At(r, "update-user", "findOne")
    /\ IF FindOneByEmail(users, r.updates.email)
       THEN /\ resp' = Response("update-user", 409, "email_already_in_use", "none",
                                r.updates.email, 0, Seen(FALSE, FALSE, FALSE, TRUE))
            /\ Finish(r)
       ELSE /\ Suspend([r EXCEPT !.pc = "update"])
            /\ resp' = NoResponse
    /\ UNCHANGED <<clockVars, otpStore, timers, users, nextId, histVars, loginVars>>
    /\ UNCHANGED restVars

\* findByIdAndUpdate has answered: 404 when the document is gone, else 200
UpdateUserApplied(r) ==
    /\ At(r, "update-user", "update")
    /\ users' = ApplyUpdates(users, r.uid, r.updates)
    /\ IF ~FindById(users, r.uid)
       THEN resp' = Response("update-user", 404, "user_not_found_after_update", "none",
                             NoText, 0, NothingSeen)
       ELSE resp' = Response("update-user", 200, "user_updated", "none",
                             users'[r.uid].email, 0, Seen(FALSE, FALSE, FALSE, TRUE))
    /\ Finish(r)
    /\ UNCHANGED <<clockVars, otpStore, timers, nextId, histVars, loginVars>>
    /\ UNCHANGED restVars

(***************************************************************************)
(* The signup flow together with password reset, login and update, on one  *)
(* email, one code and one password for the signup.                        *)
(***************************************************************************)
GoodPassword == <<"s", "e", "c", "r", "e", "t">>
ShortPassword == <<"s", "h", "o", "r", "t">>
OtherPassword == <<"s", "e", "c", "r", "e", "t", "2">>

\* req.body of the verify-otp requests: a well-formed one with each code,
\* and one that fails each check of the shape
VerifyCases ==
    {[name |-> <<"A", "l">>, email |-> EmailPlain, password |-> GoodPassword, otp |-> o] :
        o \in OtpInputs}
    \cup {[name |-> <<" ">>, email |-> EmailPlain, password |-> GoodPassword,
           otp |-> NumberToString(OtpBase)],
          [name |-> <<"A", "l">>, email |-> EmailNoDot, password |-> GoodPassword,
           otp |-> NumberToString(OtpBase)],
          [name |-> <<"A", "l">>, email |-> EmailPlain, password |-> ShortPassword,
           otp |-> NumberToString(OtpBase)]}

\* req.params.token and req.body of the reset-password requests: a
\* well-formed one with each token, and one that fails each local check
ResetCases ==
    {[token |-> t, password |-> OtherPassword, confirmPassword |-> OtherPassword] :
        t \in TokenInputs}
    \cup {[token |-> HexToken(1), password |-> NoText, confirmPassword |-> OtherPassword],
          [token |-> HexToken(1), password |-> OtherPassword, confirmPassword |-> NoText],
          [token |-> HexToken(1), password |-> ShortPassword,
           confirmPassword |-> ShortPassword],
          [token |-> HexToken(1), password |-> OtherPassword,
           confirmPassword |-> GoodPassword]}

NextAuth ==
    \/ RequestOtp(EmailPlain)
    \/ \E r \in reqs : RequestOtpIssue(r, 0)
    \/ \E r \in reqs, outcome \in SendEmailOutcomes : RequestOtpSent(r, outcome)
    \/ \E c \in VerifyCases : VerifyOtp(c.name, c.email, c.password, c.otp)
    \/ \E r \in reqs : VerifyOtpRecheck(r)
    \/ \E r \in reqs : VerifyOtpSaved(r)
    \/ \E t \in timers : OtpCleanup(t)
    \/ Tick(LogoutCleanupDelay)
    \/ Deliver
    \/ ForgotPassword(EmailPlain)
    \/ \E r \in reqs : ForgotPasswordFound(r)
    \/ \E r \in reqs : ForgotPasswordSaved(r, "saved")
    \/ \E c \in ResetCases : ResetPassword(c.token, c.password, c.confirmPassword)
    \/ \E r \in reqs : ResetPasswordFound(r)
    \/ \E r \in reqs : ResetPasswordSaved(r)
    \/ \E password \in {GoodPassword, OtherPassword} : Login(EmailPlain, password)
    \/ \E r \in reqs : LoginFound(r)
    \/ \E t \in logoutTimers : LogoutCleanup(t)
    \/ \E uid \in 1..Len(users), email \in {EmailOther, EmailPlain} :
           UpdateUser(uid, uid, NoText, email, NoText)
    \/ \E r \in reqs : UpdateUserLoaded(r)
    \/ \E r \in reqs : UpdateUserChecked(r)
    \/ \E r \in reqs : UpdateUserApplied(r)

SpecAuth == Init /\ [][NextAuth]_vars

\* mutant of RemoteLogout: a valid token is left in the map
RemoteLogout_KeepsToken(token) ==
    /\ Quiet
    /\ IF token = NoText
       THEN /\ resp' = Response("remote-logout", 400, "token_missing", "none", NoText, 0,
                                NothingSeen)
            /\ UNCHANGED remoteLogoutTokens
       ELSE IF \/ ~MapHas(remoteLogoutTokens, token)
               \/ now > MapGet(remoteLogoutTokens, token).expires
       THEN /\ remoteLogoutTokens' = MapDelete(remoteLogoutTokens, token)
            /\ resp' = Response("remote-logout", 400, "link_expired_or_invalid", "none",
                                NoText, token[2], NothingSeen)
       ELSE /\ UNCHANGED remoteLogoutTokens
            /\ resp' = Response("remote-logout", 200, "logout_initiated", "none",
                                NoText, token[2], NothingSeen)
    /\ UNCHANGED <<clockVars, otpStore, timers, users, reqs, nextId, histVars>>
    /\ UNCHANGED <<logoutTimers, sessions>>
    /\ UNCHANGED restVars

\* GET /api/auth/remote-logout/:token, which has no await: 400 without a
\* token; a token that is not in the map or is past its expiry is deleted
\* and answered 400; else it is deleted and answered 200. No JWT is
\* invalidated. issue is history: the number of the token
RemoteLogout(token) ==
    /\ Quiet
    /\ IF token = NoText
       THEN /\ resp' = Response("remote-logout", 400, "token_missing", "none", NoText, 0,
                                NothingSeen)
            /\ UNCHANGED remoteLogoutTokens
       ELSE IF \/ ~MapHas(remoteLogoutTokens, token)
               \/ now > MapGet(remoteLogoutTokens, token).expires
       THEN /\ remoteLogoutTokens' = MapDelete(remoteLogoutTokens, token)
            /\ resp' = Response("remote-logout", 400, "link_expired_or_invalid", "none",
                                NoText, token[2], NothingSeen)
       ELSE /\ remoteLogoutTokens' = MapDelete(remoteLogoutTokens, token)
            /\ resp' = Response("remote-logout", 200, "logout_initiated", "none",
                                NoText, token[2], NothingSeen)
    /\ UNCHANGED <<clockVars, otpStore, timers, users, reqs, nextId, histVars>>
    /\ UNCHANGED <<logoutTimers, sessions>>
    /\ UNCHANGED restVars

(***************************************************************************)
(* Password reset and login of a User who signed up before the server was  *)
(* started, next to the signup of a second email.                          *)
(***************************************************************************)
\* the server starts on a database in which one User has signed up, with
\* GoodPassword; the maps are empty
InitRegistered ==
    /\ now = 0
    /\ ticks = 0
    /\ otpStore = {}
    /\ timers = {}
    /\ hashOnSave \in BOOLEAN
    /\ experiences = {}
    /\ users = InsertUser(<<>>, <<"A", "l">>, EmailPlain,
                          PreSaveHook(hashOnSave, BcryptHash(GoodPassword)), 1,
                          Seen(TRUE, FALSE, TRUE, FALSE), GoodPassword)
    /\ reqs = {}
    /\ nextId = 1
    /\ resp = NoResponse
    /\ issued = 1
    /\ passes = [i \in Issues |-> IF i = 1 THEN 1 ELSE 0]
    /\ verified = {EmailPlain}
    /\ remoteLogoutTokens = {}
    /\ logoutTimers = {}
    /\ sessions = {}
    /\ resets = [t \in 1..MaxRequests |-> 0]
    /\ resetMails = {}
    /\ conversations = {}
    /\ turns = {}

\* what is typed into the ResetPassword view, opened with each token
ViewCases ==
    {[token |-> t, password |-> OtherPassword, confirmPassword |-> OtherPassword] :
        t \in TokenInputs}
    \cup {[token |-> HexToken(1), password |-> OtherPassword,
           confirmPassword |-> GoodPassword]}

NextReset ==
    \/ \E d \in {1, ResetTtl} : Tick(d)
    \/ \E c \in ViewCases : HandleSubmit(c.token, c.password, c.confirmPassword)
    \/ Deliver
    \/ \E email \in {EmailPlain, EmailOther} : ForgotPassword(email)
    \/ \E r \in reqs : ForgotPasswordFound(r)
    \/ \E r \in reqs, outcome \in {"saved", "failed"} : ForgotPasswordSaved(r, outcome)
    \/ \E c \in ResetCases : ResetPassword(c.token, c.password, c.confirmPassword)
    \/ \E r \in reqs : ResetPasswordFound(r)
    \/ \E r \in reqs : ResetPasswordSaved(r)
    \/ \E password \in {GoodPassword, OtherPassword} : Login(EmailPlain, password)
    \/ \E r \in reqs : LoginFound(r)
    \/ \E t \in logoutTimers : LogoutCleanup(t)

SpecReset == InitRegistered /\ [][NextReset]_vars

\* logins of the registered User and visits of remote logout links
NextLogout ==
    \/ \E d \in {1, LogoutTtl, LogoutCleanupDelay} : Tick(d)
    \/ Deliver
    \/ \E password \in {GoodPassword, OtherPassword} : Login(EmailPlain, password)
    \/ \E r \in reqs : LoginFound(r)
    \/ \E t \in logoutTimers : LogoutCleanup(t)
    \/ \E token \in TokenInputs \cup {NoText} : RemoteLogout(token)

SpecLogout == InitRegistered /\ [][NextLogout]_vars

\* setTimeout: with no request to serve, the process sleeps until the
\* earliest timer that is not yet due
Elapse ==
    /\ Quiet
    /\ LET later == {d \in {t.due : t \in timers} \cup {t.due : t \in logoutTimers} :
                         d > now}
       IN  /\ later # {}
           /\ now' = CHOOSE d \in later : \A e \in later : d <= e
    /\ resp' = NoResponse
    /\ UNCHANGED <<ticks, otpStore, timers, users, reqs, nextId, histVars, loginVars>>
    /\ UNCHANGED restVars

\* signup, login and remote logout while the timers of setTimeout run
NextLive ==
    \/ RequestOtp(EmailPlain)
    \/ \E r \in reqs : RequestOtpIssue(r, 0)
    \/ \E r \in reqs, outcome \in SendEmailOutcomes : RequestOtpSent(r, outcome)
    \/ \E otp \in {GenerateOtp(0), GenerateOtp(OtpSpan - 1)} :
           VerifyOtp(<<"A", "l">>, EmailPlain, GoodPassword, otp)
    \/ \E r \in reqs : VerifyOtpRecheck(r)
    \/ \E r \in reqs : VerifyOtpSaved(r)
    \/ \E t \in timers : OtpCleanup(t)
    \/ Login(EmailPlain, GoodPassword)
    \/ \E r \in reqs : LoginFound(r)
    \/ \E t \in logoutTimers : LogoutCleanup(t)
    \/ \E x \in remoteLogoutTokens : RemoteLogout(x.key)
    \/ Elapse
    \/ Deliver

\* the server starts; the User model does not hash on save, so that the
\* login of the new User is accepted
InitLive == Init /\ hashOnSave = FALSE

\* a timer that is due runs its callback, the process wakes up for its
\* timers, and a response that was written is delivered
SpecLive ==
    /\ InitLive
    /\ [][NextLive]_vars
    /\ SF_vars(Elapse)
    /\ SF_vars(\E t \in timers : OtpCleanup(t))
    /\ SF_vars(\E t \in logoutTimers : LogoutCleanup(t))
    /\ WF_vars(Deliver)

(***************************************************************************)
(* The conversation routes and generateChatbotAnswer.  Texts are sequences *)
(* of words.  Every handler runs after authMiddleware let the request of   *)
(* User uid through.                                                       *)
(***************************************************************************)
\* const timeout = 45000 (ms)
ChatTimeout == 45000

authVars == <<otpStore, timers, users, reqs, histVars, loginVars, hashOnSave,
              experiences, resetHist>>

\* how the fetch of generateChatbotAnswer can end: a text the normalizer
\* keeps, a text it reduces to "", a blocked prompt, a body without text,
\* any other error of the API
ModelOutcomes == {"text", "empty_text", "blocked", "no_text", "api_error"}
ModelFailures == {"blocked", "no_text", "api_error"}

\* generateChatbotAnswer: the normalized text, or from its catch block the
\* error message wrapped in an answer
GenerateChatbotAnswer(outcome) ==
    LET \* the message of the Error thrown inside the try
        thrown ==
            CASE outcome = "blocked" -> <<"Content", "blocked:">>
              [] outcome = "no_text" ->
                     <<"No", "valid", "text", "content", "received", "from", "Gemini.">>
              [] OTHER -> <<"Gemini", "API", "Error:">>
    IN  CASE outcome = "text" -> [answer |-> <<"model", "text">>]
          [] outcome = "empty_text" -> [answer |-> <<>>]
          [] OTHER -> [answer |-> <<"I", "encountered", "an", "issue:">> \o thrown
                                  \o <<"Please", "try", "again.">>]

\* an Error: id names it, message is error.message
Err(id, message) == [id |-> id, message |-> message]

TimedOutError == Err("chatbot_request_timed_out", <<"Chatbot", "request", "timed", "out">>)
InvalidFormatError ==
    Err("invalid_chatbot_response_format",
        <<"Invalid", "chatbot", "response", "format", "received", "from",
          "generation", "logic.">>)
UpdateFailedError ==
    Err("failed_to_update_conversation",
        <<"Failed", "to", "update", "conversation", "after", "getting", "bot",
          "response.">>)

\* how a query of the Conversation model can settle: it answers, or it
\* rejects because the connection is gone or because the operation was
\* buffered until Mongoose gave up
DbOutcomes ==
    {[ok |-> TRUE, error |-> Err("none", <<>>)],
     [ok |-> FALSE, error |-> Err("topology_closed", <<"Topology", "is", "closed">>)],
     [ok |-> FALSE,
      error |-> Err("buffering_timed_out",
                    <<"Operation", "conversations.findOne()", "buffering", "timed",
                      "out", "after", "10000ms">>)]}

\* message.toLowerCase().includes(words)
Includes(message, words) ==
    LET LowerWord(w) ==
            CASE w = "Chatbot" -> "chatbot"
              [] w = "Invalid" -> "invalid"
              [] OTHER -> w
    IN  \E i \in 1..(Len(message) - Len(words) + 1) :
            \A j \in 1..Len(words) : LowerWord(message[i + j - 1]) = words[j]

\* the catch block of the turn and err.status || 500 of the error handler
ErrorStatus(error) ==
    IF Includes(error.message, <<"timed", "out">>) THEN 408
    ELSE IF Includes(error.message, <<"invalid", "chatbot", "response", "format">>)
    THEN 502 ELSE 500

\* next(error) of the turn: what the global error handler answers; issue
\* names the turn and details is history: what became of the model call
ErrorResponse(t, error, details) ==
    Response("submit-turn", ErrorStatus(error),
             IF ErrorStatus(error) = 500 THEN "internal_server_error" ELSE error.id,
             details, NoText, t.key, NothingSeen)

\* mongoose.Types.ObjectId.isValid(conversationId): 0 stands for a string
\* that is no ObjectId
IsValidObjectId(id) == id # 0

\* new Conversation({ userId }): the document save() writes. last is
\* history: this is the conversation of its owner that the most recent
\* successful turn was stored in
NewConversation(id, uid, t) ==
    [key |-> id, userId |-> uid, messages |-> <<>>, lastActivity |-> t,
     title |-> Unset, last |-> FALSE]

\* mutant of FindConversation: the filter is { _id } alone
FindConversation_AnyOwner(cs, id, uid) == {c \in cs : c.key = id}

\* Conversation.findOne({ _id, userId })
FindConversation(cs, id, uid) == {c \in cs : c.key = id /\ c.userId = uid}

\* the text of the system instruction and of the model's acknowledgement
SystemInstruction == <<"S", "y", "s", "t", "e", "m">>
Understood == <<"U", "n", "d", "e", "r", "s", "t", "o", "o", "d">>

\* history.filter(m => m.role !== "error" && m.content && m.content.trim() !== "")
\*        .map(m => ({ role: m.role === "bot" ? "model" : "user", parts }))
FilterHistory(history) ==
    LET kept == SelectSeq(history, LAMBDA m : m.role # "error" /\ Trim(m.content) # NoText)
    IN  [i \in 1..Len(kept) |->
            [role |-> IF kept[i].role = "bot" THEN "model" ELSE "user",
             text |-> Trim(kept[i].content)]]

\* the loop of formatHistoryForGemini: a message of the role of the last
\* one replaces its parts, else it is pushed
RECURSIVE MergeRoles(_, _)
MergeRoles(geminiHistory, filtered) ==
    IF filtered = <<>> THEN geminiHistory
    ELSE LET msg == Head(filtered)
             n == Len(geminiHistory)
         IN  IF n > 0 /\ geminiHistory[n].role = msg.role
             THEN MergeRoles([geminiHistory EXCEPT ![n].text = msg.text], Tail(filtered))
             ELSE MergeRoles(Append(geminiHistory, msg), Tail(filtered))

\* formatHistoryForGemini(history)
FormatHistoryForGemini(history) ==
    MergeRoles(IF Len(history) > 0
               THEN <<[role |-> "user", text |-> SystemInstruction],
                      [role |-> "model", text |-> Understood]>>
               ELSE <<>>,
               FilterHistory(history))

\* payload.contents of generateChatbotAnswer(prompt, history)
Contents(prompt, history) ==
    Append(FormatHistoryForGemini(history), [role |-> "user", text |-> Trim(prompt)])

\* a suspended POST /api/conversations/:id/messages or POST /api/chatbot;
\* at, answer and outcome are set when the model call settles, contents is
\* what the model call sends and history is history: what the caller sent
Turn(id, uid, conv, prompt) ==
    [key |-> id, uid |-> uid, conv |-> conv, prompt |-> prompt, pc |-> "findOne",
     deadline |-> 0, at |-> 0, answer |-> <<>>, outcome |-> "none",
     contents |-> <<>>, history |-> <<>>, text |-> <<>>]

\* mutant of TurnMessages: only the user message is pushed
TurnMessages_UserOnly(t) ==
    <<[role |-> "user", content |-> Trim(t.prompt), timestamp |-> t.at,
       turn |-> t.key, outcome |-> t.outcome, uid |-> t.uid]>>

\* userMessage and botMessage; turn, outcome and uid are history: the
\* request, how its model call ended and the User who sent it
TurnMessages(t) ==
    <<[role |-> "user", content |-> Trim(t.prompt), timestamp |-> t.at,
       turn |-> t.key, outcome |-> t.outcome, uid |-> t.uid],
      [role |-> "bot", content |-> t.answer, timestamp |-> t.at,
       turn |-> t.key, outcome |-> t.outcome, uid |-> t.uid]>>

\* findByIdAndUpdate(conversationId, { $push: { messages: { $each } },
\* $set: { lastActivity } }): what it leaves in the collection
PushMessages(cs, id, msgs, t) ==
    {IF c.key = id
     THEN [c EXCEPT !.messages = @ \o msgs, !.lastActivity = t, !.last = TRUE]
     ELSE IF \E o \in cs : o.key = id /\ o.userId = c.userId
     THEN [c EXCEPT !.last = FALSE]
     ELSE c : c \in cs}

\* POST /api/conversations: await newConversation.save(), 201. The handler
\* does nothing before its one await, so the two steps are taken as one
CreateConversation(uid) ==
    /\ Quiet
    /\ AuthMiddleware(sessions, users, uid)
    /\ nextId <= MaxRequests
    /\ nextId' = nextId + 1
    /\ conversations' = conversations \cup {NewConversation(nextId, uid, now)}
    /\ resp' = Response("create-conversation", 201, "new_conversation_started", "none",
                        NoText, nextId, NothingSeen)
    /\ UNCHANGED <<clockVars, turns, authVars>>

\* DELETE /api/conversations/:id: the id check, await deleteOne({ _id,
\* userId }), 404 or 200
DeleteConversation(uid, id) ==
    /\ Quiet
    /\ AuthMiddleware(sessions, users, uid)
    /\ IF ~IsValidObjectId(id)
       THEN /\ resp' = Response("delete-conversation", 400, "invalid_conversation_id",
                                "none", NoText, 0, NothingSeen)
            /\ UNCHANGED conversations
       ELSE IF FindConversation(conversations, id, uid) = {}
       THEN /\ resp' = Response("delete-conversation", 404, "conversation_not_found",
                                "none", NoText, 0, NothingSeen)
            /\ UNCHANGED conversations
       ELSE /\ conversations' = conversations \ FindConversation(conversations, id, uid)
            /\ resp' = Response("delete-conversation", 200, "conversation_deleted",
                                "none", NoText, 0, NothingSeen)
    /\ UNCHANGED <<clockVars, nextId, turns, authVars>>

\* POST /api/conversations/:id/messages arrives: the prompt and id checks,
\* then await Conversation.findOne
SubmitTurn(uid, id, prompt) ==
    /\ Quiet
    /\ AuthMiddleware(sessions, users, uid)
    /\ IF Trim(prompt) = NoText
       THEN /\ resp' = Response("submit-turn", 400, "prompt_cannot_be_empty", "none",
                                NoText, 0, NothingSeen)
            /\ UNCHANGED <<turns, nextId>>
       ELSE IF ~IsValidObjectId(id)
       THEN /\ resp' = Response("submit-turn", 400, "invalid_conversation_id", "none",
                                NoText, 0, NothingSeen)
            /\ UNCHANGED <<turns, nextId>>
       ELSE /\ nextId <= MaxRequests
            /\ Cardinality(turns) < MaxInflight
            /\ nextId' = nextId + 1
            /\ turns' = turns \cup {Turn(nextId, uid, id, prompt)}
            /\ resp' = NoResponse
    /\ UNCHANGED <<clockVars, conversations, authVars>>

\* findOne has settled: its rejection goes to the catch block, no document
\* is answered 404, else generateChatbotAnswer is called and raced against
\* a timer of 45000 ms
SubmitTurnFound(t, db) ==
    /\ Quiet
    /\ t \in turns
    /\ t.pc = "findOne"
    /\ IF ~db.ok
       THEN /\ resp' = ErrorResponse(t, db.error, "none")
            /\ turns' = turns \ {t}
       ELSE IF FindConversation(conversations, t.conv, t.uid) = {}
       THEN /\ resp' = Response("submit-turn", 404, "conversation_not_found", "none",
                                NoText, t.key, NothingSeen)
            /\ turns' = turns \ {t}
       ELSE /\ turns' = (turns \ {t})
                            \cup {[t EXCEPT !.pc = "race", !.deadline = now + ChatTimeout,
                                            !.contents = Contents(t.prompt, <<>>)]}
            /\ resp' = NoResponse
    /\ UNCHANGED <<clockVars, nextId, conversations, authVars>>

\* generateChatbotAnswer settles before the timer is due: an answer that is
\* empty after trim() is thrown as an invalid response, else the two
\* messages are made and findByIdAndUpdate is awaited
ModelAnswers(t, outcome) ==
    /\ Quiet
    /\ t \in turns
    /\ t.pc = "race"
    /\ now < t.deadline
    /\ LET result == GenerateChatbotAnswer(outcome)
       IN  IF result.answer = <<>>
           THEN /\ resp' = ErrorResponse(t, InvalidFormatError, outcome)
                /\ turns' = turns \ {t}
           ELSE /\ turns' = (turns \ {t})
                                \cup {[t EXCEPT !.pc = "update", !.at = now,
                                                !.answer = result.answer,
                                                !.outcome = outcome]}
                /\ resp' = NoResponse
    /\ UNCHANGED <<clockVars, nextId, conversations, authVars>>

\* the timer of the race fires first: the catch block, 408. The call of
\* generateChatbotAnswer stays outstanding
TurnTimeout(t) ==
    /\ Quiet
    /\ t \in turns
    /\ t.pc = "race"
    /\ now >= t.deadline
    /\ resp' = ErrorResponse(t, TimedOutError, "deadline")
    /\ turns' = (turns \ {t}) \cup {[t EXCEPT !.pc = "abandoned"]}
    /\ UNCHANGED <<clockVars, nextId, conversations, authVars>>

\* generateChatbotAnswer settles after the race was lost: nobody awaits it
ModelAnswersLate(t, outcome) ==
    /\ Quiet
    /\ t \in turns
    /\ t.pc = "abandoned"
    /\ turns' = turns \ {t}
    /\ resp' = NoResponse
    /\ UNCHANGED <<clockVars, nextId, conversations, authVars>>

\* findByIdAndUpdate has settled: its rejection and a null document go to
\* the catch block, else both messages are in the collection and the answer
\* is sent with 200
SubmitTurnUpdated(t, db) ==
    /\ Quiet
    /\ t \in turns
    /\ t.pc = "update"
    /\ IF ~db.ok
       THEN /\ resp' = ErrorResponse(t, db.error, t.outcome)
            /\ UNCHANGED conversations
       ELSE IF ~MapHas(conversations, t.conv)
       THEN /\ resp' = ErrorResponse(t, UpdateFailedError, t.outcome)
            /\ UNCHANGED conversations
       ELSE /\ conversations' = PushMessages(conversations, t.conv, TurnMessages(t), t.at)
            /\ resp' = Response("submit-turn", 200, "answer", t.outcome, NoText, t.key,
                                NothingSeen)
    /\ turns' = turns \ {t}
    /\ UNCHANGED <<clockVars, nextId, authVars>>

\* trimmed.substring(0, 40)
TitleLength == 40

\* generateTitleFromPrompt of the Home view
GenerateTitleFromPrompt(prompt) ==
    LET trimmed == Trim(prompt)
    IN  IF trimmed = NoText THEN <<"N", "e", "w", " ", "C", "h", "a", "t">>
        ELSE IF Len(trimmed) > TitleLength
        THEN SubSeq(trimmed, 1, TitleLength) \o <<".", ".", ".">>
        ELSE trimmed

\* the summary GET /api/conversations maps a document to, with
\* conv.title || 'Untitled Chat'
Summary(c) ==
    [id |-> c.key,
     title |-> IF c.title # Unset THEN c.title ELSE <<"U", "n", "t", "i", "t", "l", "e", "d">>,
     lastUpdate |-> c.lastActivity]

\* find(...).sort({ lastActivity: -1 }): the orders the documents can come
\* in (documents of equal lastActivity in any order)
SortedLists(cs) ==
    {list \in [1..Cardinality(cs) -> cs] :
        /\ \A i, j \in 1..Cardinality(cs) : i # j => list[i] # list[j]
        /\ \A i, j \in 1..Cardinality(cs) :
               i < j => list[i].lastActivity >= list[j].lastActivity}

\* GET /api/conversations: await Conversation.find({ userId }) sorted, 200
\* with the summaries (at most MaxRequests documents exist, fewer than the
\* limit of 100). The handler does nothing before its one await, so the
\* two steps are taken as one; email is history: the caller
ListConversations(uid) ==
    /\ Quiet
    /\ AuthMiddleware(sessions, users, uid)
    /\ \E list \in SortedLists({c \in conversations : c.userId = uid}) :
           resp' = [Response("list-conversations", 200, "conversations", "none",
                             users[uid].email, 0, NothingSeen)
                       EXCEPT !.body = [i \in 1..Len(list) |-> Summary(list[i])]]
    /\ UNCHANGED <<clockVars, nextId, conversations, turns, authVars>>

\* GET /api/conversations/:id/messages: the id check, await findOne({ _id,
\* userId }), 404 or 200 with the messages; issue is history: the id asked for
GetMessages(uid, id) ==
    /\ Quiet
    /\ AuthMiddleware(sessions, users, uid)
    /\ IF ~IsValidObjectId(id)
       THEN resp' = Response("get-messages", 400, "invalid_conversation_id", "none",
                             users[uid].email, id, NothingSeen)
       ELSE IF FindConversation(conversations, id, uid) = {}
       THEN resp' = Response("get-messages", 404, "conversation_not_found", "none",
                             users[uid].email, id, NothingSeen)
       ELSE resp' = [Response("get-messages", 200, "messages", "none",
                              users[uid].email, id, NothingSeen)
                        EXCEPT !.body =
                            (CHOOSE c \in FindConversation(conversations, id, uid) :
                                TRUE).messages]
    /\ UNCHANGED <<clockVars, nextId, conversations, turns, authVars>>

\* POST /api/chatbot arrives: 400 when there is no prompt; for a prompt
\* that is blank after trim() generateChatbotAnswer returns its canned
\* answer without a fetch, which is sent with 200; else the fetch is awaited
Chatbot(prompt, history) ==
    /\ Quiet
    /\ IF prompt = NoText
       THEN /\ resp' = Response("chatbot", 400, "prompt_required", "none", NoText, 0,
                                NothingSeen)
            /\ UNCHANGED <<turns, nextId>>
       ELSE IF Trim(prompt) = NoText
       THEN /\ resp' = Response("chatbot", 200, "please_provide_a_question", "none",
                                NoText, 0, NothingSeen)
            /\ UNCHANGED <<turns, nextId>>
       ELSE /\ nextId <= MaxRequests
            /\ Cardinality(turns) < MaxInflight
            /\ nextId' = nextId + 1
            /\ turns' = turns \cup {[Turn(nextId, 0, 0, prompt)
                                        EXCEPT !.pc = "chatbot",
                                               !.contents = Contents(prompt, history),
                                               !.history = history]}
            /\ resp' = NoResponse
    /\ UNCHANGED <<clockVars, conversations, authVars>>

\* generateChatbotAnswer has settled: its result is sent with 200 as it is
ChatbotAnswered(t, outcome) ==
    /\ Quiet
    /\ t \in turns
    /\ t.pc = "chatbot"
    /\ turns' = turns \ {t}
    /\ resp' = [Response("chatbot", 200, "answer", outcome, NoText, t.key, NothingSeen)
                    EXCEPT !.body = GenerateChatbotAnswer(outcome).answer]
    /\ UNCHANGED <<clockVars, nextId, conversations, authVars>>

\* the server after two signups and the logins of both Users (the logins
\* were accepted, so the User model does not hash on save)
InitChat ==
    /\ now = 0
    /\ ticks = 0
    /\ otpStore = {}
    /\ timers = {}
    /\ hashOnSave = FALSE
    /\ experiences = {}
    /\ users = InsertUser(InsertUser(<<>>, <<"A", "l">>, EmailPlain,
                                     BcryptHash(GoodPassword), 1,
                                     Seen(TRUE, FALSE, TRUE, FALSE), GoodPassword),
                          <<"B">>, EmailOther, BcryptHash(GoodPassword), 2,
                          Seen(TRUE, FALSE, TRUE, FALSE), GoodPassword)
    /\ reqs = {}
    /\ nextId = 1
    /\ resp = NoResponse
    /\ issued = 2
    /\ passes = [i \in Issues |-> IF i <= 2 THEN 1 ELSE 0]
    /\ verified = {EmailPlain, EmailOther}
    /\ remoteLogoutTokens = {}
    /\ logoutTimers = {}
    /\ sessions = {1, 2}
    /\ resets = [t \in 1..MaxRequests |-> 0]
    /\ resetMails = {}
    /\ conversations = {}
    /\ turns = {}

\* the ids, prompts and clock advances of the chat requests; User 1 owns
\* the conversations and User 2 is the other caller
ConversationIds == {0, 1, 2}
PromptInputs == {<<"h", "i">>, <<" ">>}
NextChat ==
    \/ CreateConversation(1)
    \/ \E uid \in 1..Len(users), id \in ConversationIds : DeleteConversation(uid, id)
    \/ \E uid \in 1..Len(users), id \in ConversationIds, prompt \in PromptInputs :
           SubmitTurn(uid, id, prompt)
    \/ \E t \in turns, db \in DbOutcomes : SubmitTurnFound(t, db)
    \/ \E t \in turns, outcome \in ModelOutcomes : ModelAnswers(t, outcome)
    \/ \E t \in turns : TurnTimeout(t)
    \/ \E t \in turns, outcome \in ModelOutcomes : ModelAnswersLate(t, outcome)
    \/ \E t \in turns, db \in DbOutcomes : SubmitTurnUpdated(t, db)
    \/ Tick(ChatTimeout)
    \/ Deliver

SpecChat == InitChat /\ [][NextChat]_vars

\* the conversation routes of both Users with their reads, while every
\* query and model call succeeds
NextRead ==
    \/ CreateConversation(1)
    \/ \E uid \in 1..Len(users), id \in ConversationIds : DeleteConversation(uid, id)
    \/ \E uid \in 1..Len(users), id \in ConversationIds :
           SubmitTurn(uid, id, <<"h", "i">>)
    \/ \E t \in turns : SubmitTurnFound(t, CHOOSE db \in DbOutcomes : db.ok)
    \/ \E t \in turns : ModelAnswers(t, "text")
    \/ \E t \in turns : SubmitTurnUpdated(t, CHOOSE db \in DbOutcomes : db.ok)
    \/ Tick(ChatTimeout)
    \/ Deliver
    \/ \E uid \in 1..Len(users) : ListConversations(uid)
    \/ \E uid \in 1..Len(users), id \in ConversationIds : GetMessages(uid, id)

SpecRead == InitChat /\ [][NextRead]_vars

\* the histories a caller sends: up to MaxHistory messages of each role,
\* with content and with blank content
MaxHistory == 2
HistoryInputs ==
    LET HistoryEntries ==
            {[role |-> role, content |-> content] :
                role \in {"user", "bot", "error"}, content \in {<<"x">>, <<" ">>}}
    IN  UNION {[1..n -> HistoryEntries] : n \in 0..MaxHistory}

\* both chat endpoints with every prompt and history
NextChatbot ==
    \/ \E prompt \in PromptInputs \cup {NoText}, history \in HistoryInputs :
           Chatbot(prompt, history)
    \/ \E t \in turns : ChatbotAnswered(t, "text")
    \/ CreateConversation(1)
    \/ \E prompt \in PromptInputs \cup {NoText} : SubmitTurn(1, 1, prompt)
    \/ \E t \in turns : SubmitTurnFound(t, CHOOSE db \in DbOutcomes : db.ok)
    \/ \E t \in turns : ModelAnswers(t, "text")
    \/ \E t \in turns : SubmitTurnUpdated(t, CHOOSE db \in DbOutcomes : db.ok)
    \/ Deliver

SpecChatbot == InitChat /\ [][NextChatbot]_vars

(***************************************************************************)
(* formatResponsePlainText of chatbot.js.  A text is the sequence of its   *)
(* characters.                                                             *)
(***************************************************************************)
Letters == Range(Upper) \cup Range(Lower)
Digits == Range(DigitChars)
\* [*\-+]
Bullets == {"*", "-", "+"}

\* the fixed sentence returned for a text without a meaningful line, as a
\* text of one element
Apology == <<"I'm sorry, I couldn't generate a meaningful response based on that.">>

\* the index of the first ">" of s from i on, Len(s) + 1 when there is none
RECURSIVE NextGt(_, _)
NextGt(s, i) == IF i > Len(s) \/ s[i] = ">" THEN i ELSE NextGt(s, i + 1)

\* replace(/<\/?[^>]+(>|$)/g, ""): a "<" followed by a character other
\* than ">" is removed with all that follows up to the next ">", or up to
\* the end of the text when there is none
RECURSIVE StripTags(_)
StripTags(s) ==
    IF s = <<>> THEN <<>>
    ELSE IF Head(s) = "<" /\ NextGt(s, 2) > 2
    THEN IF NextGt(s, 2) >= Len(s) THEN <<>>
         ELSE StripTags(SubSeq(s, NextGt(s, 2) + 1, Len(s)))
    ELSE <<Head(s)>> \o StripTags(Tail(s))

\* step 1: the cleaned text. replace(/[*#_`~]/g, "") is taken without the
\* backquote, which no modelled text holds; replace(/\u00A0/g, " "); trim()
Cleaned(text) ==
    LET unmarked == SelectSeq(StripTags(text), LAMBDA c : c \notin {"*", "#", "_", "~"})
    IN  Trim([i \in 1..Len(unmarked) |->
                 IF unmarked[i] = "nbsp" THEN " " ELSE unmarked[i]])

\* replace(/\s+/g, " ")
RECURSIVE CollapseSpace(_)
CollapseSpace(s) ==
    IF s = <<>> THEN <<>>
    ELSE IF Head(s) \in Whitespace THEN <<" ">> \o CollapseSpace(TrimStart(s))
    ELSE <<Head(s)>> \o CollapseSpace(Tail(s))

\* String.prototype.split(sep) for a separator of one character
RECURSIVE Split(_, _)
Split(s, sep) ==
    IF \A i \in 1..Len(s) : s[i] # sep THEN <<s>>
    ELSE LET k == CHOOSE i \in 1..Len(s) :
                      s[i] = sep /\ \A j \in 1..(i - 1) : s[j] # sep
         IN  <<SubSeq(s, 1, k - 1)>> \o Split(SubSeq(s, k + 1, Len(s)), sep)

\* Array.prototype.join(sep) of texts
RECURSIVE Join(_, _)
Join(ss, sep) ==
    IF ss = <<>> THEN <<>>
    ELSE IF Len(ss) = 1 THEN ss[1]
    ELSE ss[1] \o sep \o Join(Tail(ss), sep)

\* step 2: the lines that are kept: not empty, with a letter or digit, and
\* not of at most 2 characters matching /^\s*(\d+\.|[-*+])\s*$/
MeaningfulLines(text) ==
    LET raw == Split(Cleaned(text), "\n")
        BareMarker(line) ==
            LET t == Trim(line)
            IN  \/ Len(t) = 1 /\ t[1] \in Bullets
                \/ /\ Len(t) >= 2
                   /\ t[Len(t)] = "."
                   /\ \A i \in 1..(Len(t) - 1) : t[i] \in Digits
        KeepLine(line) ==
            /\ Len(line) # 0
            /\ \E i \in 1..Len(line) : line[i] \in Letters \cup Digits
            /\ ~(Len(line) <= 2 /\ BareMarker(line))
    IN  SelectSeq([i \in 1..Len(raw) |-> Trim(CollapseSpace(raw[i]))], KeepLine)

\* the end of the run of white space that starts at i
RECURSIVE RunEnd(_, _)
RunEnd(s, i) ==
    IF i < Len(s) /\ s[i + 1] \in Whitespace THEN RunEnd(s, i + 1) ELSE i

\* split(/(?<=[.?!])\s+(?=[A-Z0-9])|\n\s*\n/) of the rejoined lines, which
\* hold no line feed, so that the second alternative matches nowhere
RECURSIVE SplitSentences(_)
SplitSentences(s) ==
    LET SentenceBreak(i) ==
            /\ i >= 2
            /\ s[i] \in Whitespace
            /\ s[i - 1] \in {".", "?", "!"}
            /\ RunEnd(s, i) < Len(s)
            /\ s[RunEnd(s, i) + 1] \in Range(Upper) \cup Digits
    IN  IF \A i \in 1..Len(s) : ~SentenceBreak(i) THEN <<s>>
        ELSE LET k == CHOOSE i \in 1..Len(s) :
                          SentenceBreak(i) /\ \A j \in 1..(i - 1) : ~SentenceBreak(j)
             IN  <<SubSeq(s, 1, k - 1)>>
                     \o SplitSentences(SubSeq(s, RunEnd(s, k) + 1, Len(s)))

\* the segments of a text with a meaningful line: the pieces of more than
\* one character that hold a letter
Segments(text) ==
    LET raw == SplitSentences(Join(MeaningfulLines(text), <<" ">>))
        KeepSegment(seg) ==
            /\ Len(seg) > 1
            /\ \E i \in 1..Len(seg) : seg[i] \in Letters
    IN  SelectSeq([i \in 1..Len(raw) |-> Trim(CollapseSpace(raw[i]))], KeepSegment)

\* the text after its leading digits
RECURSIVE DropDigits(_)
DropDigits(s) ==
    IF s # <<>> /\ Head(s) \in Digits THEN DropDigits(Tail(s)) ELSE s

\* mutant of WithoutLeading: the segment is kept as it is
WithoutLeading_Kept(seg) == Trim(seg)

\* s.replace(/^\s*(?:[*\-+]|\d+\.?)\s*/, "").trim()
WithoutLeading(seg) ==
    LET t == TrimStart(seg)
    IN  IF t = <<>> THEN Trim(seg)
        ELSE IF Head(t) \in Bullets THEN Trim(Tail(t))
        ELSE IF Head(t) \in Digits
        THEN LET r == DropDigits(t)
             IN  Trim(IF r # <<>> /\ Head(r) = "." THEN Tail(r) ELSE r)
        ELSE Trim(seg)

formatResponsePlainText(text) ==
    IF MeaningfulLines(text) = <<>> THEN Apology
    ELSE LET segments == Segments(text)
         IN  IF Len(segments) < 3 THEN Trim(Join(segments, <<" ">>))
             ELSE Join([i \in 1..Len(segments) |->
                           NumberToString(i) \o <<".", " ">> \o WithoutLeading(segments[i])],
                       <<"\n">>)

\* the fetch of a POST /api/chatbot has settled with a text of the model:
\* generateChatbotAnswer returns the normalized text, sent with 200. code is
\* history: the text of the model
ChatbotText(t) ==
    /\ Quiet
    /\ t \in turns
    /\ t.pc = "chatbot"
    /\ turns' = turns \ {t}
    /\ resp' = [Response("chatbot", 200, "answer", "text", NoText, t.key, NothingSeen)
                    EXCEPT !.body = formatResponsePlainText(t.text), !.code = t.text]
    /\ UNCHANGED <<clockVars, nextId, conversations, authVars>>

\* the pieces the texts of the model are made of, and how many of them
MaxPieces == 5
TextInputs ==
    LET TextPieces ==
            {<<"A", "b", ".", " ">>, <<"b">>, <<" ">>, <<"\n">>, <<"-", " ">>,
             <<"1", " ">>, <<"2", ".">>, <<"*">>, <<"<", "b", ">">>, <<">">>}
    IN  {Join(ps, <<>>) : ps \in UNION {[1..n -> TextPieces] : n \in 0..MaxPieces}}

\* the server while one POST /api/chatbot awaits the model, which is going
\* to answer with text
InitFormat ==
    /\ now = 0
    /\ ticks = 0
    /\ otpStore = {}
    /\ timers = {}
    /\ hashOnSave = FALSE
    /\ experiences = {}
    /\ users = <<>>
    /\ reqs = {}
    /\ nextId = 2
    /\ resp = NoResponse
    /\ issued = 0
    /\ passes = [i \in Issues |-> 0]
    /\ verified = {}
    /\ remoteLogoutTokens = {}
    /\ logoutTimers = {}
    /\ sessions = {}
    /\ resets = [t \in 1..MaxRequests |-> 0]
    /\ resetMails = {}
    /\ conversations = {}
    /\ \E text \in TextInputs :
           turns = {[Turn(1, 0, 0, <<"h", "i">>) EXCEPT !.pc = "chatbot", !.text = text,
                        !.contents = Contents(<<"h", "i">>, <<>>)]}

NextFormat ==
    \/ \E t \in turns : ChatbotText(t)
    \/ Deliver

SpecFormat == InitFormat /\ [][NextFormat]_vars

(***************************************************************************)
(* DELETE /api/users/delete/:id.                                           *)
(***************************************************************************)
\* the request arrives with the JWT of User uid: 403 unless the caller is
\* the target or an admin, then await User.findById (issue of the responses
\* is history: the id of the target)
DeleteUser(uid, target) ==
    /\ Quiet
    /\ IF ~AuthMiddleware(sessions, users, uid)
       THEN /\ resp' = Response("delete-user", 401, "not_authorized", "none",
                                NoText, target, NothingSeen)
            /\ UNCHANGED <<reqs, nextId>>
       ELSE IF target # uid /\ ~users[uid].isAdmin
       THEN /\ resp' = Response("delete-user", 403, "forbidden", "none",
                                NoText, target, NothingSeen)
            /\ UNCHANGED <<reqs, nextId>>
       ELSE /\ CanSuspend
            /\ nextId' = nextId + 1
            /\ Suspend([Request(nextId, "delete-user", "findById",
                                NoText, NoText, NoText, NoText, 0)
                            EXCEPT !.uid = target])
            /\ resp' = NoResponse
    /\ UNCHANGED <<clockVars, otpStore, timers, users, histVars, loginVars>>
    /\ UNCHANGED restVars

\* findById has answered: 404 when there is no such User, else
\* await Experience.deleteMany({ userId })
DeleteUserLoaded(r) ==
    /\ At(r, "delete-user", "findById")
    /\ IF ~FindById(users, r.uid)
       THEN /\ resp' = Response("delete-user", 404, "user_not_found", "none",
                                NoText, r.uid, NothingSeen)
            /\ Finish(r)
       ELSE /\ Suspend([r EXCEPT !.pc = "deleteMany"])
            /\ resp' = NoResponse
    /\ UNCHANGED <<clockVars, otpStore, timers, users, nextId, histVars, loginVars>>
    /\ UNCHANGED restVars

\* Experience.deleteMany has settled. Rejected: the catch block hands the
\* error to the global error handler, 500. Resolved: the experiences of the
\* target are gone, and the next statement, await Chat.deleteOne(...),
\* names a binding the module neither imports nor declares: evaluating it
\* throws a ReferenceError, which the same catch block hands on, 500.
\* User.findByIdAndDelete and the 200 that follow it are never reached.
DeleteUserExperiences(r, db) ==
    /\ At(r, "delete-user", "deleteMany")
    /\ experiences' = IF db.ok THEN {e \in experiences : e.userId # r.uid}
                      ELSE experiences
    /\ resp' = Response("delete-user", 500, "internal_server_error", "none",
                        NoText, r.uid, NothingSeen)
    /\ Finish(r)
    /\ UNCHANGED <<clockVars, otpStore, timers, users, nextId, histVars, loginVars>>
    /\ UNCHANGED <<hashOnSave, resetHist, chatVars>>

\* the server after two signups and the logins of both Users; the second
\* User was made an admin in the database, and both have experiences
InitDelete ==
    /\ now = 0
    /\ ticks = 0
    /\ otpStore = {}
    /\ timers = {}
    /\ hashOnSave = FALSE
    /\ experiences = {[key |-> 1, userId |-> 1], [key |-> 2, userId |-> 1],
                      [key |-> 3, userId |-> 2]}
    /\ users = [InsertUser(InsertUser(<<>>, <<"A", "l">>, EmailPlain,
                                      BcryptHash(GoodPassword), 1,
                                      Seen(TRUE, FALSE, TRUE, FALSE), GoodPassword),
                           <<"B">>, EmailOther, BcryptHash(GoodPassword), 2,
                           Seen(TRUE, FALSE, TRUE, FALSE), GoodPassword)
                    EXCEPT ![2].isAdmin = TRUE]
    /\ reqs = {}
    /\ nextId = 1
    /\ resp = NoResponse
    /\ issued = 2
    /\ passes = [i \in Issues |-> IF i <= 2 THEN 1 ELSE 0]
    /\ verified = {EmailPlain, EmailOther}
    /\ remoteLogoutTokens = {}
    /\ logoutTimers = {}
    /\ sessions = {1, 2}
    /\ resets = [t \in 1..MaxRequests |-> 0]
    /\ resetMails = {}
    /\ conversations = {}
    /\ turns = {}

\* callers 1 and 2 are the Users, 3 carries no valid JWT; target 3 is the
\* id of no User
NextDelete ==
    \/ \E uid \in 1..3, target \in 1..3 : DeleteUser(uid, target)
    \/ \E r \in reqs : DeleteUserLoaded(r)
    \/ \E r \in reqs, db \in DbOutcomes : DeleteUserExperiences(r, db)
    \/ \E uid \in 1..2 : CreateConversation(uid)
    \/ \E uid \in 1..2, id \in ConversationIds : DeleteConversation(uid, id)
    \/ Deliver

SpecDelete == InitDelete /\ [][NextDelete]_vars

(***************************************************************************)
(* Properties of the signup flow.                                          *)
(***************************************************************************)
\* the Users a verification of issue i saved
SavedVia(i) == {k \in 1..Len(users) : users[k].via = i}

\* the response of a verify-otp that got past the input validation
CheckedVerify(rs) == rs.route = "verify-otp" /\ rs.msg # "valid_fields_required"

\* the handler found the stored, unexpired code in the request
SawStoredCode(rs) == rs.seen.hadEntry /\ ~rs.seen.late /\ rs.seen.same

UsersCreated == Len(users') # Len(users)

\* the step answered a request other than a verify-otp with 201
AnsweredWithoutSignup ==
    \/ resp'.route \in {"request-otp", "forgot-password", "reset-password",
                        "login", "update-user"}
    \/ resp'.route = "verify-otp" /\ resp'.status # 201

\* C2 (as claimed): every User has an email for which some verify-otp found
\* a stored, unexpired code equal to the code it carried, and only a
\* verify-otp answered 201 creates a User
C2_UserOnlyForVerifiedEmail ==
    [][/\ \A k \in 1..Len(users') : users'[k].email \in verified'
       /\ AnsweredWithoutSignup => ~UsersCreated
      ]_vars

\* C2 (amended): every User document was created by a verify-otp that
\* found, at its check, an entry for the email the document was created
\* with, whose code equals the code of the request and whose expiry had not
\* passed; a step creates a User only when it answers a verify-otp with
\* 201, and then exactly one; request-otp, a failed verify-otp,
\* forgot-password, reset-password, login and the update of a User create
\* none and remove none. (The update may afterwards give the document
\* another email.)
C2_UsersMadeByVerifiedOtp ==
    [][/\ \A k \in 1..Len(users') :
              /\ users'[k].check.hadEntry
              /\ ~users'[k].check.late
              /\ users'[k].check.same
              /\ users'[k].madeFor \in verified'
              /\ users'[k].via \in Issues
              /\ passes'[users'[k].via] >= 1
       /\ UsersCreated =>
              /\ Len(users') = Len(users) + 1
              /\ resp'.route = "verify-otp"
              /\ resp'.status = 201
              /\ users'[Len(users')].email = resp'.email
              /\ users'[Len(users')].madeFor = resp'.email
       /\ AnsweredWithoutSignup => ~UsersCreated
       /\ \A k \in 1..Len(users) :
              /\ k <= Len(users')
              /\ users'[k].id = users[k].id
              /\ users'[k].madeFor = users[k].madeFor
      ]_vars

\* C2 witness: the update of a User was answered 200 and has given a User
\* of the signup an email no verify-otp was ever sent for
C2_Witness ==
    /\ resp.route = "update-user"
    /\ resp.status = 200
    /\ \E k \in 1..Len(users) :
           /\ users[k].email = resp.email
           /\ users[k].email # users[k].madeFor
           /\ users[k].email \notin verified
           /\ users[k].madeFor \in verified
           /\ users[k].check.same

\* the shape checks of VerifyOtp as the claim lists them
VerifyShapeFails(name, email, password, otp) ==
    \/ Trim(name) = <<>>
    \/ ~TestEmail(email)
    \/ Len(password) < 6
    \/ Len(otp) # 6
    \/ \E i \in 1..Len(otp) : otp[i] \notin Range(DigitChars)

\* the local checks of ResetPassword as the claim lists them
ResetLocalFails(password, confirmPassword) ==
    \/ password = <<>>
    \/ confirmPassword = <<>>
    \/ Len(password) < 6
    \/ password # confirmPassword

\* C12: a verify-otp that fails a shape check (blank name, malformed email,
\* password shorter than 6, code not exactly 6 digits) and a reset-password
\* that fails a local check (missing field, password shorter than 6,
\* password differing from confirmPassword) are answered 400 in the step
\* they arrive in, having looked at neither otpStore nor the Users, and
\* that step changes neither otpStore nor its timers, nor a User (with its
\* reset token and expiry), nor a suspended request.
C12_InvalidInputTouchesNothing ==
    [][/\ (resp'.route = "verify-otp" \/ \E r \in reqs' \ reqs : r.route = "verify-otp") =>
              \A c \in VerifyCases :
                  (VerifyShapeFails(c.name, c.email, c.password, c.otp)
                      /\ VerifyOtp(c.name, c.email, c.password, c.otp)) =>
                      /\ resp'.status = 400
                      /\ resp'.msg = "valid_fields_required"
                      /\ resp'.seen = NothingSeen
                      /\ UNCHANGED <<otpStore, timers, users, reqs>>
       /\ (resp'.route = "reset-password"
              \/ \E r \in reqs' \ reqs : r.route = "reset-password") =>
              \A c \in ResetCases :
                  (ResetLocalFails(c.password, c.confirmPassword)
                      /\ ResetPassword(c.token, c.password, c.confirmPassword)) =>
                      /\ resp'.status = 400
                      /\ resp'.msg \in {"password_and_confirmation_required",
                                        "password_too_short", "passwords_do_not_match"}
                      /\ resp'.seen = NothingSeen
                      /\ UNCHANGED <<otpStore, timers, users, reqs>>
      ]_vars

\* C12 witness: a reset-password was answered 400 by a local check while a
\* User holds an unexpired reset token and otpStore an unexpired code
C12_Witness ==
    /\ resp.route = "reset-password"
    /\ resp.status = 400
    /\ resp.msg \in {"password_and_confirmation_required", "password_too_short",
                     "passwords_do_not_match"}
    /\ \E k \in 1..Len(users) :
           users[k].passwordResetToken # Unset /\ users[k].passwordResetExpires > now
    /\ \E x \in otpStore : now <= x.expires

\* C13: every answer to a forgot-password that names an email is the answer
\* an email of no User gets: 200 with the generic message, whether or not
\* the email belongs to a User and also when storing the token fails.
C13_SameAnswerForAnyEmail ==
    (resp.route = "forgot-password" /\ resp.email # NoText) =>
        (resp.status = 200 /\ resp.msg = "reset_link_sent_if_exists")

\* C14: no reset token is accepted by reset-password more than once, also
\* when two requests that carry it are in flight together.
C14_TokenAcceptedOnce == \A n \in DOMAIN resets : resets[n] <= 1

\* C15: the reset-token field of every User is unset, or holds the SHA-256
\* hash of a token that was mailed to that User together with an expiry of
\* exactly 3600000 ms after the token was drawn; no User holds a mailed
\* token itself; and a reset-password gets to its save only for the User
\* whose stored hash is the hash of the token it received.
C15_OnlyHashStored ==
    /\ \A k \in 1..Len(users) :
           \/ users[k].passwordResetToken = Unset /\ users[k].passwordResetExpires = 0
           \/ \E m \in resetMails :
                  /\ m.uid = users[k].id
                  /\ users[k].passwordResetToken = <<"sha256", m.token>>
                  /\ users[k].passwordResetExpires = m.born + 3600000
    /\ \A k \in 1..Len(users), m \in resetMails : users[k].passwordResetToken # m.token
    /\ \A r \in reqs : (r.route = "reset-password" /\ r.pc = "save") =>
           \E m \in resetMails : m.token = r.raw /\ m.uid = r.uid
                                  /\ r.token = <<"sha256", r.raw>>

\* C15 witness: a reset-password has found its User by the hash of its token
\* and the User still holds that hash with an expiry in the future
C15_Witness ==
    \E r \in reqs :
        /\ r.route = "reset-password" /\ r.pc = "save"
        /\ users[r.uid].passwordResetToken = r.token
        /\ users[r.uid].passwordResetExpires > now

C17_LoginAcceptsLastPassword ==
    [][\A r \in reqs \ reqs' :
           (r.route = "login" /\ FindOneByEmail(users, r.email)) =>
               LET u == users[FirstByEmail(users, r.email)]
               IN  u.plain # Unset => (resp'.status = 200 <=> r.password = u.plain) ]_vars

\* C18: the message list of every stored conversation has even length and
\* is made of adjacent pairs: a user message and right after it the bot
\* message of the same turn.
C18_AdjacentPairs ==
    \A c \in conversations :
        /\ Len(c.messages) % 2 = 0
        /\ \A i \in 1..Len(c.messages) :
               i % 2 = 1 =>
                   /\ c.messages[i].role = "user"
                   /\ i + 1 <= Len(c.messages)
                   /\ c.messages[i + 1].role = "bot"
                   /\ c.messages[i + 1].turn = c.messages[i].turn

\* C18 witness: a turn is answered 408 on a conversation that holds the
\* messages of two other turns
C18_Witness ==
    /\ resp.route = "submit-turn" /\ resp.status = 408
    /\ \E c \in conversations, t \in turns :
           /\ t.key = resp.issue /\ t.conv = c.key
           /\ Len(c.messages) = 4
           /\ c.messages[1].turn # c.messages[3].turn

\* C19: a turn whose model call failed (content blocked, no text in the
\* body, another error of the API) is not answered 200, and no stored
\* message is of such a turn.
C19_ModelFailureIsAnError ==
    /\ (resp.route = "submit-turn" /\ resp.details \in ModelFailures) => resp.status # 200
    /\ \A c \in conversations : \A i \in 1..Len(c.messages) :
           c.messages[i].outcome \notin ModelFailures

\* C20: 408 is the answer of a turn whose timer of 45000 ms fired before the
\* model answered, and of no other failure of a turn.
C20_Only408OnDeadline ==
    (resp.route = "submit-turn" /\ resp.status = 408) => resp.details = "deadline"

\* C21: on POST /api/chatbot and on POST /api/conversations/:id/messages a
\* prompt that is missing, empty or blank after trimming is answered 400 in
\* the step it arrives in, no model call is started and no conversation
\* changes.
C21_BlankPromptRefused ==
    [][(resp'.route \in {"chatbot", "submit-turn"}) =>
          \A prompt \in PromptInputs \cup {NoText} :
              Trim(prompt) = NoText =>
                  /\ \A history \in HistoryInputs :
                         Chatbot(prompt, history) =>
                             (resp'.status = 400 /\ UNCHANGED <<turns, conversations>>)
                  /\ SubmitTurn(1, 1, prompt) =>
                         (resp'.status = 400 /\ UNCHANGED <<turns, conversations>>) ]_vars

\* the model call of turn t has been started
ModelCalled(t) == t.pc \in {"race", "chatbot", "update", "abandoned"}

\* C22: the contents sent to the model never hold two consecutive entries
\* of one role, the new prompt included, whatever history the caller sent.
C22_RolesAlternate ==
    \A t \in turns :
        ModelCalled(t) =>
            \A i \in 1..(Len(t.contents) - 1) : t.contents[i].role # t.contents[i + 1].role

\* C23: the contents sent to the model are the system instruction, then the
\* caller's history without its entries of empty content, then the new
\* prompt; on both endpoints and for an empty history too.
C23_InstructionHistoryPrompt ==
    \A t \in turns :
        ModelCalled(t) =>
            LET kept == SelectSeq(t.history, LAMBDA m : Trim(m.content) # NoText)
            IN  /\ Len(t.contents) = Len(kept) + 2
                /\ t.contents[1].text = SystemInstruction
                /\ \A i \in 1..Len(kept) : t.contents[i + 1].text = Trim(kept[i].content)
                /\ t.contents[Len(t.contents)].text = Trim(t.prompt)

\* the conversations of the User a response was made for
ConversationsOfCaller(rs) ==
    {c \in conversations : users[c.userId].email = rs.email}

\* C24 as stated: when every conversation of the caller has stored turns
\* and no two of them have the same lastActivity, the list starts with the
\* conversation the most recent successful turn was stored in.
C24_LatestTurnFirst ==
    (/\ resp.route = "list-conversations"
     /\ \A c \in ConversationsOfCaller(resp) : Len(c.messages) > 0
     /\ \A c, d \in ConversationsOfCaller(resp) :
            c # d => c.lastActivity # d.lastActivity) =>
        \A c \in ConversationsOfCaller(resp) : c.last => resp.body[1].id = c.key

\* C25: a stored conversation with a first turn has the title derived from
\* the prompt of that turn, and the list of GET /api/conversations reports
\* that title for it.
C25_TitleFromFirstTurn ==
    /\ \A c \in conversations :
           Len(c.messages) > 0 => c.title = GenerateTitleFromPrompt(c.messages[1].content)
    /\ resp.route = "list-conversations" =>
           \A c \in ConversationsOfCaller(resp) :
               Len(c.messages) > 0 =>
                   \E i \in 1..Len(resp.body) :
                       /\ resp.body[i].id = c.key
                       /\ resp.body[i].title = GenerateTitleFromPrompt(c.messages[1].content)

\* C26: a step never alters or removes a stored message of a conversation
\* that stays in the collection, adds none or exactly the two messages of
\* one turn after them, and never lowers its lastActivity; once a
\* conversation holds messages its lastActivity is the timestamp of its
\* latest bot message.
C26_AppendOnlyAndMonotone ==
    [][/\ \A c \in conversations : \A d \in conversations' :
              c.key = d.key =>
                  /\ Len(d.messages) \in {Len(c.messages), Len(c.messages) + 2}
                  /\ SubSeq(d.messages, 1, Len(c.messages)) = c.messages
                  /\ Len(d.messages) > Len(c.messages) =>
                         d.messages[Len(d.messages)].turn = d.messages[Len(d.messages) - 1].turn
                  /\ d.lastActivity >= c.lastActivity
       /\ \A d \in conversations' :
              Len(d.messages) > 0 =>
                  /\ \E i \in 1..Len(d.messages) :
                         d.messages[i].role = "bot" /\ d.messages[i].timestamp = d.lastActivity
                  /\ \A i \in 1..Len(d.messages) :
                         d.messages[i].role = "bot" => d.messages[i].timestamp <= d.lastActivity
      ]_vars

\* C27: for a stored conversation and an authenticated User who does not
\* own it, a fetch of its messages, the lookup of a submitted turn and a
\* delete are each answered 404 and leave the collection as it is, the turn
\* ends without a model call; no model call is ever under way for a
\* conversation of another User, and every stored message was sent by the
\* owner of its conversation.
C27_OnlyOwner ==
    [][/\ (resp'.status = 404 \/ resp'.route \in {"get-messages", "delete-conversation"}
            \/ turns' # turns) =>
              \A uid \in 1..Len(users) : \A c \in conversations :
                  c.userId # uid =>
                      /\ GetMessages(uid, c.key) =>
                             (resp'.status = 404 /\ resp'.body = <<>>)
                      /\ DeleteConversation(uid, c.key) =>
                             (resp'.status = 404 /\ conversations' = conversations)
                      /\ \A t \in turns :
                             (/\ t.uid = uid
                              /\ t.conv = c.key
                              /\ SubmitTurnFound(t, CHOOSE db \in DbOutcomes : db.ok)) =>
                                 /\ resp'.status = 404
                                 /\ conversations' = conversations
                                 /\ \A u \in turns' : u.key # t.key
       /\ \A t \in turns' : \A c \in conversations' :
              (t.conv = c.key /\ ModelCalled(t)) => t.uid = c.userId
       /\ \A c \in conversations' : \A i \in 1..Len(c.messages) :
              c.messages[i].uid = c.userId
      ]_vars

\* C27 witness: the other User's fetch of a conversation that holds the
\* messages of a turn is answered 404, the conversation is still stored
C27_Witness ==
    /\ resp.route = "get-messages" /\ resp.status = 404
    /\ \E c \in conversations :
           /\ c.key = resp.issue
           /\ Len(c.messages) > 0
           /\ users[c.userId].email # resp.email

\* C28: a visit of a remote logout link is answered 200 only when its token
\* is in the map and not past its expiry, and then the token is removed; a
\* visit with a token that is not in the map is answered 400, a visit past
\* the expiry is answered 400 and removes the token; a token that is not in
\* the map and that no login in progress is about to create never comes
\* back, so no token is accepted twice; a visit leaves every other token
\* as it is.
C28_TokenAcceptedAtMostOnce ==
    [][/\ resp'.route = "remote-logout" =>
              \A token \in TokenInputs :
                  RemoteLogout(token) =>
                      /\ ~MapHas(remoteLogoutTokens', token)
                      /\ \A x \in remoteLogoutTokens : x.key # token => x \in remoteLogoutTokens'
                      /\ \A x \in remoteLogoutTokens' : x \in remoteLogoutTokens
                      /\ resp'.status \in {200, 400}
                      /\ resp'.status = 200 <=>
                             /\ MapHas(remoteLogoutTokens, token)
                             /\ now <= MapGet(remoteLogoutTokens, token).expires
       /\ \A token \in TokenInputs :
              (/\ ~MapHas(remoteLogoutTokens, token)
               /\ \A r \in reqs : RandomToken(r) # token) =>
                  /\ ~MapHas(remoteLogoutTokens', token)
                  /\ \A r \in reqs' : RandomToken(r) # token \/ r.key >= nextId
      ]_vars

\* C28 witness: the second visit of a link is answered 400 within the hour
\* while the token of another login of the User is still in the map
C28_Witness ==
    /\ resp.route = "remote-logout" /\ resp.status = 400
    /\ resp.issue # 0
    /\ resp.issue < nextId
    /\ \A r \in reqs : r.key # resp.issue
    /\ \E t \in logoutTimers :
           /\ t.token = HexToken(resp.issue)
           /\ now <= t.due - LogoutCleanupDelay + LogoutTtl
    /\ \E x \in remoteLogoutTokens : x.userId = 1 /\ now <= x.expires

\* C29: every response with status 500 is the one of the generic error
\* handler, and the body of a 500 of request-otp has no details field with
\* the message of the error that was caught.
C29_SanitizedFailures ==
    resp.status = 500 =>
        /\ resp.msg = "internal_server_error"
        /\ resp.route = "request-otp" => resp.details = "none"

\* the lines of a text
LinesOf(out) == Split(out, "\n")

\* r is what is left of seg without one leading bullet or number
MarkerRemoved(seg, r) ==
    \E k \in 0..Len(seg) :
        /\ r = Trim(SubSeq(seg, k + 1, Len(seg)))
        /\ \A i \in 1..k : seg[i] \in Bullets \cup Digits \cup {".", " "}
        /\ (seg[1] \in Bullets \cup Digits) = (k >= 1)
        /\ (k >= 1 /\ seg[1] \in Bullets) => k <= 2
        /\ (k < Len(seg) /\ k >= 1 /\ seg[1] \in Digits) =>
               (seg[k + 1] \notin Digits \/ seg[k] \in {".", " "})

\* the answer to a text is its segments joined by single spaces when they
\* are fewer than 3, else one line per segment, line i being "i. " and the
\* segment without its leading bullet or number
JoinedOrNumbered(text, out) ==
    LET segs == Segments(text)
    IN  IF Len(segs) < 3
        THEN /\ out = Join(segs, <<" ">>)
             /\ \A i \in 1..Len(out) : out[i] # "\n"
             /\ (segs = <<text>>) => out = text
        ELSE /\ Len(LinesOf(out)) = Len(segs)
             /\ \A i \in 1..Len(segs) :
                    \E r \in {WithoutLeading(segs[i])} :
                        /\ LinesOf(out)[i] = NumberToString(i) \o <<".", " ">> \o r
                        /\ MarkerRemoved(segs[i], r)

\* C30: for every text of the model the answer is its meaningful segments
\* joined by single spaces, unnumbered, when there are fewer than 3 (a text
\* that is one segment is returned as it is), else one line per segment,
\* line i being "i. " and the segment without its leading bullet or number.
C30_JoinedOrNumbered ==
    (resp.route = "chatbot" /\ resp.details = "text") =>
        JoinedOrNumbered(resp.code, resp.body)

\* C30 amended: as C30 for a text with a meaningful line; a text without
\* one is answered with the fixed apology.
C30_JoinedNumberedOrApology ==
    (resp.route = "chatbot" /\ resp.details = "text") =>
        IF MeaningfulLines(resp.code) = <<>>
        THEN resp.body = Apology
        ELSE JoinedOrNumbered(resp.code, resp.body)

\* C30 witness: a text of three segments, the first with a bullet, the
\* second with a number of its own, is answered in three numbered lines
C30_Witness ==
    /\ resp.route = "chatbot" /\ resp.details = "text"
    /\ Len(Segments(resp.code)) = 3
    /\ Segments(resp.code)[1][1] = "-"
    /\ Segments(resp.code)[2][1] = "1"
    /\ Len(LinesOf(resp.body)) = 3

\* C31: the answer to a text of the model holds no "*", no "<" and no ">",
\* and it is the value the normalizer has for that text.
C31_NoMarkupLeft ==
    (resp.route = "chatbot" /\ resp.details = "text") =>
        /\ \A i \in 1..Len(resp.body) : resp.body[i] \notin {"*", "<", ">"}
        /\ resp.body = formatResponsePlainText(resp.code)

\* C32: after the visit of a valid remote logout link was answered 200, the
\* JWT of the login that issued the link is not accepted by authMiddleware
\* (stated where the clock has not moved and the only login timer is the
\* one of that link, so that the User has no other JWT).
C32_LinkEndsSession ==
    (/\ resp.route = "remote-logout" /\ resp.status = 200
     /\ ticks = 0
     /\ \A t \in logoutTimers : t.token = HexToken(resp.issue)) =>
        \A uid \in 1..Len(users) : ~AuthMiddleware(sessions, users, uid)

\* C33: a request-otp answered 400, 409 or 500 has left nothing in otpStore:
\* no entry of the store is one that this request has set.
C33_FailedRequestLeavesStore ==
    (resp.route = "request-otp" /\ resp.status \in {400, 409, 500}) =>
        \A e \in otpStore : resp.issue = 0 \/ e.issue # resp.issue

C35_AnswerNeverEmpty ==
    (resp.route = "chatbot" /\ resp.details = "text") => Trim(resp.body) # NoText

\* C36: at most one mailed reset token is valid per User at any time; the
\* save of a forgot-password stores the hash and the expiry of its own token,
\* after which the lookup of every token mailed to the User before finds
\* nobody; and the lookup of a reset-password goes on to the save exactly
\* when the User holds the hash of its token unexpired, else it answers 400.
C36_OnlyLatestTokenValid ==
    /\ [](\A k \in 1..Len(users) :
             Cardinality({m \in resetMails :
                             k \in UsersWithToken(users, Sha256(m.token), now)}) <= 1)
    /\ [][\A r \in reqs :
             /\ ForgotPasswordSaved(r, "saved") =>
                    /\ users'[r.uid].passwordResetToken = Sha256(RandomToken(r))
                    /\ users'[r.uid].passwordResetExpires = TokenExpiry(r.born)
                    /\ \A m \in resetMails :
                           m.uid = r.uid =>
                               UsersWithToken(users', Sha256(m.token), now) = {}
             /\ ResetPasswordFound(r) =>
                    IF \E k \in 1..Len(users) :
                           /\ users[k].passwordResetToken = Sha256(r.raw)
                           /\ users[k].passwordResetExpires > r.at
                    THEN \E q \in reqs' :
                             /\ q.key = r.key /\ q.pc = "save"
                             /\ users[q.uid].passwordResetToken = Sha256(r.raw)
                    ELSE /\ resp'.status = 400
                         /\ resp'.msg = "token_invalid_or_expired"
                         /\ users' = users
          ]_vars

\* C36 witness: a reset-password with a token mailed to a User less than an
\* hour ago is answered 400 while the User holds the unexpired hash of a
\* token a later forgot-password stored
C36_Witness ==
    /\ resp.route = "reset-password" /\ resp.status = 400
    /\ resp.msg = "token_invalid_or_expired"
    /\ \E m1 \in resetMails, m2 \in resetMails :
           /\ m1.token = HexToken(resp.issue)
           /\ m2.uid = m1.uid /\ m2.token # m1.token
           /\ TokenExpiry(m1.born) > now
           /\ users[m2.uid].passwordResetToken = Sha256(m2.token)
           /\ users[m2.uid].passwordResetExpires > now

\* C37: a delete of an existing User by the User or by an admin either is
\* answered 200 with the User, the experiences and the conversations of the
\* User removed, or is answered with an error and has removed nothing; and
\* no step removes an experience of a User who remains.
C37_DeleteAllOrNothing ==
    [][/\ (resp'.route = "delete-user" /\ resp'.status = 200) =>
             /\ ~FindById(users', resp'.issue)
             /\ \A e \in experiences' : e.userId # resp'.issue
             /\ \A c \in conversations' : c.userId # resp'.issue
       /\ (resp'.route = "delete-user" /\ resp'.status # 200) =>
             /\ users' = users
             /\ experiences' = experiences
             /\ conversations' = conversations
       /\ \A e \in experiences : FindById(users', e.userId) => e \in experiences'
      ]_vars

\* C3: a verify-otp with a well-formed code that differs from the stored,
\* unexpired code is answered 400 'Invalid OTP entered' and changes neither
\* otpStore nor the Users; and the stored code itself is never answered 400
\* before its expiry, however many mismatches came before.
C3_MismatchKeepsEntry ==
    [][/\ (CheckedVerify(resp') /\ resp'.seen.hadEntry /\ ~resp'.seen.late
              /\ ~resp'.seen.same) =>
              /\ resp'.status = 400
              /\ resp'.msg = "invalid_otp"
              /\ otpStore' = otpStore
              /\ users' = users
       /\ (CheckedVerify(resp') /\ resp'.status = 400) => ~SawStoredCode(resp')
      ]_vars

\* C3 witness: a mismatch was answered and the entry it was compared with is
\* still in the store, unexpired
C3_Witness ==
    /\ CheckedVerify(resp)
    /\ resp.msg = "invalid_otp"
    /\ \E x \in otpStore :
           x.key = resp.email /\ x.issue = resp.issue /\ now <= x.expires

\* C4: an entry expires 5 minutes after it was stored. A verify-otp that
\* finds no entry, or an entry whose expiry has passed, is answered 400
\* 'invalid or expired' also when its code is the stored one, saves no User
\* and leaves no entry for the email; no code passes the check after its
\* expiry.
C4_ExpiredRejected ==
    [][/\ (CheckedVerify(resp') /\ (~resp'.seen.hadEntry \/ resp'.seen.late)) =>
              /\ resp'.status = 400
              /\ resp'.msg = "otp_invalid_or_expired"
              /\ users' = users
              /\ ~MapHas(otpStore', resp'.email)
       /\ \A i \in Issues : passes'[i] > passes[i] =>
              \E x \in otpStore : x.issue = i /\ now <= x.expires
       /\ \A x \in otpStore' \ otpStore : x.expires = now + 5 * 60 * 1000
      ]_vars

\* C4 witness: the stored code arrived after the expiry and was refused
C4_Witness ==
    /\ CheckedVerify(resp)
    /\ resp.msg = "otp_invalid_or_expired"
    /\ resp.seen.hadEntry
    /\ resp.seen.late
    /\ resp.seen.same
    /\ ~MapHas(otpStore, resp.email)

\* C5 (as claimed): no two Users have the same email
C5_UniqueEmails ==
    \A j, k \in 1..Len(users) : users[j].email = users[k].email => j = k

\* C6 (as claimed): a cleanup timer never deletes the entry a later
\* request-otp stored (stated for the entries that have not expired, whose
\* loss a client can see)
C6_OlderTimerSparesNewerEntry ==
    [][\A t \in timers \ timers' :
           \A x \in otpStore :
               (x.key = t.email /\ x.issue > t.issue /\ now <= x.expires) =>
                   x \in otpStore'
      ]_vars

\* C7 (as claimed): otpStore holds at most one entry per normalized email,
\* and it is the entry of the most recent successful request-otp: never the
\* entry of a request that was answered with an error
C7_EntryOfLatestSuccess ==
    /\ \A x, y \in otpStore : x.key = y.key => x = y
    /\ \A x \in otpStore : x.key = ToLowerCase(x.key)
    /\ (resp.route = "request-otp" /\ resp.status # 200) =>
           \A x \in otpStore : x.issue # resp.issue

\* C8: request-otp is answered 409 when findOne finds a User with the
\* email; that answer changes no entry of otpStore, arms no timer and calls
\* no sendEmail; and no entry is ever stored for an email that has a User
\* when findOne answers.
C8_RegisteredEmailRefused ==
    [][/\ (resp'.route = "request-otp" /\ resp'.status = 409) =>
              /\ UsersWithEmail(users, resp'.email) # {}
              /\ otpStore' = otpStore
              /\ timers' = timers
              /\ {r \in reqs' : r.pc = "sendEmail"} \subseteq reqs
       /\ \A x \in otpStore' \ otpStore : UsersWithEmail(users, x.key) = {}
       /\ \A r \in reqs' \ reqs : r.pc = "sendEmail" => UsersWithEmail(users, r.email) = {}
      ]_vars

\* C8 witness: a request-otp was answered 409
C8_Witness ==
    /\ resp.route = "request-otp"
    /\ resp.status = 409
    /\ UsersWithEmail(users, resp.email) # {}

\* C9: a verify-otp that carried the stored, unexpired code and whose
\* re-check finds a User with the email is answered 409 and saves no User,
\* and the entry it matched is gone from otpStore.
C9_RecheckConflict ==
    /\ \A r \in reqs : (r.route = "verify-otp" /\ r.pc = "save") => ~r.sawUser
    /\ (resp.route = "verify-otp" /\ resp.status = 201) => ~resp.seen.userFound
    /\ (resp.route = "verify-otp" /\ resp.status = 409) =>
           /\ resp.seen.userFound
           /\ SavedVia(resp.issue) = {}
           /\ \A x \in otpStore : x.issue # resp.issue
           /\ passes[resp.issue] = 1

\* C9 witness: a verify-otp with the stored code was answered 409
C9_Witness ==
    /\ resp.route = "verify-otp"
    /\ resp.status = 409
    /\ Cardinality(UsersWithEmail(users, resp.email)) = 1

\* C11 (as claimed): the code check of verify-otp and the deletion of the
\* entry are separate steps, so that a second verify-otp can pass the check
\* in between: a step in which a code passes the check leaves its entry in
\* otpStore
C11_CheckLeavesEntry ==
    [][\A i \in Issues : passes'[i] > passes[i] =>
           \E x \in otpStore' : x.issue = i
      ]_vars

\* C11 (amended): the lookup, the comparison and the deletion of
\* verify-otp run without an await between them, so that no interleaving
\* lets one stored code pass the check twice: the step in which a code
\* passes removes its entry, and while a verify-otp that passed is
\* suspended no entry of otpStore and no check of another verify-otp is of
\* the otpStore.set whose code it carried.
C11_OneCodePassesOnce ==
    [][/\ \A i \in Issues : passes'[i] <= 1
       /\ \A i \in Issues : passes'[i] > passes[i] =>
              /\ \E x \in otpStore : x.issue = i
              /\ \A x \in otpStore' : x.issue # i
       /\ \A r \in reqs' : r.route = "verify-otp" =>
              \A x \in otpStore' : x.issue # r.issue
       /\ \A r \in reqs :
              (r.route = "verify-otp" /\ CheckedVerify(resp') /\ resp'.status = 400) =>
                  resp'.issue # r.issue
      ]_vars

\* C11 witness: while a verify-otp that passed the check is suspended, a
\* second verify-otp for the same email with the same code was answered
\* 400: it found no entry
C11_Witness ==
    /\ CheckedVerify(resp)
    /\ resp.status = 400
    /\ ~resp.seen.hadEntry
    /\ \E r \in reqs :
           /\ r.route = "verify-otp"
           /\ r.email = resp.email
           /\ r.otp = resp.code
           /\ passes[r.issue] = 1

\* C10 (as claimed): when the promise of sendEmail is rejected, request-otp
\* still answers 200
C10_MailFailureStill200 ==
    (resp.route = "request-otp" /\ resp.details = "rejected") => resp.status = 200

====
